---- MODULE Spec2Model ----
(***************************************************************************)
(* Verification model of the indexing core of subql-ethereum:              *)
(*   - UnfinalizedBlocksService (unfinalized block tracking, fork checks)  *)
(*   - the block commit path that drives it                                *)
(*   - the fetch loop and the block dispatcher                             *)
(* Hashes are pairs <<height, branch>>: a reorganisation at height p puts  *)
(* every block at or above p on a fresh branch.                            *)
(***************************************************************************)
EXTENDS Integers, Sequences, FiniteSets, TLC

\* ---------------------------------------------------------------- bounds
MaxHeight == 4
MaxBranch == 2
BatchSize == 2
QueueCapacity == 3
NumWorkers == 2

\* ------------------------------------------------------- program constants
ForkWalkLimit == 200
StartBlock == 1

\* JavaScript undefined and null where a height is expected
Undefined == 0 - 1
Null == 0 - 2
NoBlock == 0

VARIABLES
    chain,                  \* canonical chain: height -> branch id
    realFinal,              \* finalized height of the chain itself
    nextBranch,             \* number of reorganisations so far
    unfinalizedBlocks,      \* UnfinalizedBlocksService.unfinalizedBlocks
    finalizedHeader,        \* UnfinalizedBlocksService.finalizedHeader
    lastCheckedBlockHeight, \* UnfinalizedBlocksService.lastCheckedBlockHeight
    metadata,               \* the metadata store (committed values)
    tx,                     \* the open database transaction
    nodeConfig,             \* NodeConfig
    proc,                   \* position inside init / processUnfinalizedBlocks
    initLog,                \* what the last init() did
    rewound,                \* height of the rewind just carried out, or Null
    latestFinalizedHeight,  \* fetch service: the finalized height last polled
    fetchPc,                \* fetch loop: "idle", "fetching" or "enqueuing"
    lastCall,               \* the enqueueBlocks call in progress
    freeSize,               \* dispatcher: free slots of the queue
    latestBufferedHeight,   \* dispatcher: height the fetch loop has covered
    queue,                  \* dispatcher: pending heights and their fetch state
    lastCommitted,          \* dispatcher: height of the last committed block
    modulos,                \* fetch service: getModulos()
    bypassBlocks,           \* network config: bypassBlocks, numbers and ranges
    connection,             \* _fetchData: the ConnectionInfo of the call
    http,                   \* _fetchData: the call in progress
    endpoints,              \* project: chain id reported by each endpoint
    network,                \* project: network.chainId
    apiService,             \* EthereumApiService.init: position and outcome
    pool,                   \* ConnectionPoolService: connections and turn
    blocksCall,             \* EthereumApiService.fetchBlocks: call in progress
    wrapped,                \* EthereumApi.fetchBlock: the wrapped block returned
    rpcCalls,               \* JSON-RPC requests issued for the wrapped block
    receiptCalls,           \* calls of receipt() per transaction
    dataSources,            \* buildDictionaryV2QueryEntry: its argument
    queryEntry,             \* buildDictionaryV2QueryEntry: the entry returned
    dictV1,                 \* DictionaryV1: metadata, validation and getData
    batchProvider,          \* JsonRpcBatchProvider: batch size and requests
    finality                \* EthereumApi: supportsFinalization and its calls

trackerVars == <<chain, realFinal, nextBranch, unfinalizedBlocks, finalizedHeader,
                 lastCheckedBlockHeight, metadata, tx, nodeConfig, proc, initLog,
                 rewound>>

\* the configuration of the fetch loop, fixed for a run
fetchConfig == <<modulos, bypassBlocks>>

fetchVars == <<fetchPc, lastCall, freeSize, latestBufferedHeight, queue, lastCommitted,
               fetchConfig>>

httpVars == <<connection, http>>

\* the RPC client and what is built on it
apiVars == <<endpoints, network, apiService, pool, blocksCall>>

receiptVars == <<wrapped, rpcCalls, receiptCalls>>

dictVars == <<dataSources, queryEntry>>

\* the dictionary client, the batch provider and the finality queries
clientVars == <<dictV1, batchProvider, finality>>

rpcVars == <<httpVars, apiVars, receiptVars, dictVars, clientVars>>

vars == <<trackerVars, latestFinalizedHeight, fetchVars, rpcVars>>

\* requests sent through the batch provider
MaxSends == 3

\* dictionary queries after which no further call is made
MaxQueries == 4
\* nodeConfig.dictionaryQuerySize
DictionaryQuerySize == 2
\* Infinity is above every height
Infinity == 1000000
\* the entities the dictionary queries ask for
Entities == {"evmLogs", "evmTransactions"}

\* concurrent callers of getFinalizedBlockHeight
NumCallers == 2

\* blocks below the latest one taken as finalized by the fallback
FinalizedLag == 15

Heights == 0..MaxHeight

IsNum(x) == x >= 0

\* ------------------------------------------------------------- the chain
Hash(h, b) == <<h, b>>

BlockAt(h) ==
    [number |-> h,
     hash |-> Hash(h, chain[h]),
     parentHash |-> IF h > 0 THEN Hash(h - 1, chain[h - 1]) ELSE Hash(-1, 0)]

\* EthereumApi.getBlockByHeightOrHash with a height
getBlockByHeight(h) == BlockAt(h)

\* EthereumApi.getBlockByHeightOrHash with a hash: the block of that hash, which
\* is off the canonical chain when the chain has another block at its height
getBlockByHash(x) ==
    IF x[1] \in Heights /\ chain[x[1]] = x[2] THEN BlockAt(x[1])
    ELSE [number |-> x[1], hash |-> x, parentHash |-> Hash(x[1] - 1, 0 - 1)]

\* ------------------------------------------------- metadata and JSON text
\* JSON.stringify of [[height, hash], ...]: one object per pair
JSONStringify(list) ==
    [i \in 1..Len(list) |-> [n |-> list[i][1], s |-> list[i][2]]]

\* JSON.parse of that text
JSONParse(text) ==
    [i \in 1..Len(text) |-> <<text[i].n, text[i].s>>]

MetaKeys == {"unfinalizedBlocks", "lastFinalizedVerifiedHeight", "lastProcessedHeight"}

\* a key the store has no row for reads as undefined
Absent(k) ==
    [present |-> FALSE, value |-> IF k = "unfinalizedBlocks" THEN <<>> ELSE Undefined]

NoWrites == [k \in MetaKeys |-> Absent(k)]

\* sequelize.transaction()
NewTx == [state |-> "open", writes |-> NoWrites]

NoTx == [state |-> "none", writes |-> NoWrites]

\* UnfinalizedBlocksService.setMetadata: upsert inside the transaction
setMetadata(t, key, value) ==
    [t EXCEPT !.writes[key] = [present |-> TRUE, value |-> value]]

\* tx.commit(): the pending writes reach the store
Committed(meta, t) ==
    [k \in MetaKeys |-> IF t.writes[k].present THEN t.writes[k] ELSE meta[k]]

saveUnfinalizedBlocks(t, list) ==
    setMetadata(t, "unfinalizedBlocks", JSONStringify(list))

\* slip: the verified height is written under the key of the processed height
saveLastFinalizedVerifiedHeightAsProcessed(t, height) ==
    setMetadata(t, "lastProcessedHeight", height)

saveLastFinalizedVerifiedHeight(t, height) ==
    setMetadata(t, "lastFinalizedVerifiedHeight", height)

resetLastFinalizedVerifiedHeight(t) ==
    setMetadata(t, "lastFinalizedVerifiedHeight", Null)

\* getMetadataUnfinalizedBlocks: `if (val) JSON.parse(val) else []`
getMetadataUnfinalizedBlocks(meta) ==
    IF meta["unfinalizedBlocks"].present
    THEN JSONParse(meta["unfinalizedBlocks"].value)
    ELSE <<>>

getLastFinalizedVerifiedHeight(meta) == meta["lastFinalizedVerifiedHeight"].value

\* the list a reader inside transaction t sees
StoredUnfinalized(meta, t) == getMetadataUnfinalizedBlocks(Committed(meta, t))

\* --------------------------------------------- UnfinalizedBlocksService
finalizedBlockNumber == finalizedHeader.number

Last(s) == s[Len(s)]

Reverse(s) == [i \in 1..Len(s) |-> s[Len(s) + 1 - i]]

\* JavaScript `a < b` with a possibly null or undefined: null is 0, undefined
\* makes the comparison false
JsLess(a, b) ==
    IF a = Undefined \/ b = Undefined THEN FALSE
    ELSE (IF a = Null THEN 0 ELSE a) < (IF b = Null THEN 0 ELSE b)

\* the header field before init() has set it
NoHeader == [number |-> Undefined, hash |-> Hash(0 - 1, 0), parentHash |-> Hash(0 - 1, 0)]

\* slip: the header is taken whatever its height
registerFinalizedBlockAlways(cur, header) == header

\* registerFinalizedBlock: ignored unless strictly above the current header
registerFinalizedBlock(cur, header) ==
    IF cur # NoHeader /\ cur.number >= header.number THEN cur ELSE header

\* slip: the order check is left out
RegisterOutcomeUnchecked(list, fin, blockNumber) ==
    IF blockNumber <= fin THEN "dropped" ELSE "appended"

\* slip: the block at the finalized height itself is recorded
RegisterOutcomeStrict(list, fin, blockNumber) ==
    IF blockNumber < fin THEN "dropped"
    ELSE IF Len(list) > 0 /\ Last(list)[1] + 1 # blockNumber THEN "fatal"
    ELSE "appended"

\* registerUnfinalizedBlock, the three outcomes
RegisterOutcome(list, fin, blockNumber) ==
    IF blockNumber <= fin THEN "dropped"
    ELSE IF Len(list) > 0 /\ Last(list)[1] + 1 # blockNumber THEN "fatal"
    ELSE "appended"

\* removeFinalized: cut the list after the record whose height is blockHeight
removeFinalized(list, blockHeight) ==
    LET found == {i \in 1..Len(list) : list[i][1] = blockHeight}
    IN  IF found = {} THEN list
        ELSE LET index == CHOOSE i \in found : \A j \in found : i <= j
             IN  SubSeq(list, index + 1, Len(list))

\* slip: the list is searched from its start, which finds the smallest record
getClosestRecordFirst(list, blockHeight) ==
    LET below == {i \in 1..Len(list) : list[i][1] <= blockHeight}
    IN  IF below = {} THEN [found |-> FALSE, blockHeight |-> Undefined, hash |-> Hash(0, 0)]
        ELSE LET i == CHOOSE k \in below : \A j \in below : k <= j
             IN  [found |-> TRUE, blockHeight |-> list[i][1], hash |-> list[i][2]]

\* getClosestRecord: the largest record at or below blockHeight
getClosestRecord(list, blockHeight) ==
    LET below == {i \in 1..Len(list) : list[i][1] <= blockHeight}
    IN  IF below = {} THEN [found |-> FALSE, blockHeight |-> Undefined, hash |-> Hash(0, 0)]
        ELSE LET i == CHOOSE k \in below : \A j \in below : j <= k
             IN  [found |-> TRUE, blockHeight |-> list[i][1], hash |-> list[i][2]]

RECURSIVE WalkBack(_, _)
\* hasForked: follow parentHash from the finalized header down to height h
WalkBack(header, h) ==
    IF header.number = h \/ header.number <= 0 THEN header
    ELSE WalkBack(getBlockByHash(header.parentHash), h)

\* hasForked: does the chain contradict the closest verifiable record
hasForked(list, header) ==
    LET lastVerifiableBlock == getClosestRecord(list, header.number)
    IN  IF ~lastVerifiableBlock.found THEN FALSE
        ELSE IF lastVerifiableBlock.blockHeight = header.number
             THEN lastVerifiableBlock.hash # header.hash
        ELSE LET found ==
                   IF header.number - lastVerifiableBlock.blockHeight > ForkWalkLimit
                   THEN getBlockByHeight(lastVerifiableBlock.blockHeight)
                   ELSE WalkBack(header, lastVerifiableBlock.blockHeight)
             IN  found.hash # lastVerifiableBlock.hash

\* hasForked awaits the RPC only when it has to walk or jump
hasForkedAwaits(list, header) ==
    LET lastVerifiableBlock == getClosestRecord(list, header.number)
    IN  /\ lastVerifiableBlock.found
        /\ lastVerifiableBlock.blockHeight # header.number

\* getLastCorrectFinalizedBlock: the records at or below the finalized height,
\* newest first
bestVerifiableBlocks(list, fin) ==
    Reverse(SelectSeq(list, LAMBDA r : r[1] <= fin))

\* getLastCorrectFinalizedBlock: the test of one loop iteration
RecordMatches(rec, checkingHeader) ==
    rec[2] = checkingHeader.hash \/ rec[2] = checkingHeader.parentHash

\* resetUnfinalizedBlocks: the store part and the memory part
resetUnfinalizedBlocksTx(t) == setMetadata(t, "unfinalizedBlocks", JSONStringify(<<>>))

\* slip: the store is reset but the list in memory is kept
resetUnfinalizedBlocksListKept(list) == list

resetUnfinalizedBlocksList(list) == <<>>

\* the value of lastProcessedHeight in the store; before the first commit the
\* indexer stands just below the start block
LastProcessedHeight ==
    IF metadata["lastProcessedHeight"].present
    THEN metadata["lastProcessedHeight"].value
    ELSE StartBlock - 1

\* the height the fetch loop may index up to: the best block when unfinalized
\* blocks are indexed, the finalized block otherwise
LatestHeight ==
    IF nodeConfig.unfinalizedBlocks THEN MaxHeight ELSE latestFinalizedHeight

\* ------------------------------------------------------ position records
IdleProc ==
    [pc |-> "idle", io |-> FALSE, inInit |-> FALSE, block |-> NoBlock,
     forked |-> FALSE, verified |-> Undefined, best |-> <<>>, rest |-> <<>>,
     checking |-> NoHeader, ret |-> Null]

BootProc == [IdleProc EXCEPT !.pc = "boot"]

ExitedProc == [IdleProc EXCEPT !.pc = "exited"]

NoInitLog ==
    [done |-> FALSE, hadRecords |-> FALSE, unfinalizedBlocks |-> FALSE,
     ranProcess |-> FALSE, result |-> Null, reindexCalls |-> <<>>]

\* no enqueueBlocks call in progress
NoCall ==
    [heights |-> <<>>, upTo |-> 0, freeBefore |-> 0, start |-> 0,
     batchBlocks |-> <<>>, lastBufferedHeight |-> 0]

\* ------------------------------------------------------------- RPC client
\* promises
Pending == [state |-> "pending", value |-> "none"]
Resolved(v) == [state |-> "resolved", value |-> v]
Rejected(v) == [state |-> "rejected", value |-> v]

\* _fetchData before any call
NoConnection ==
    [throttleLimit |-> Null, method |-> "GET", errorPassThrough |-> FALSE,
     processFunc |-> FALSE, throttleCallback |-> FALSE, allow304 |-> FALSE]

NoHttp ==
    [pc |-> "none", ctx |-> "none", status |-> Null, attempt |-> 0, requests |-> 0,
     timer |-> FALSE,
     timeoutPromise |-> Pending, runningFetch |-> Pending, result |-> Pending,
     retries |-> {}]

HttpIdle ==
    /\ connection = NoConnection
    /\ http = NoHttp

\* EthereumApiService before init
NoApiService == [pc |-> "none", created |-> {}, networkMeta |-> Null, error |-> "none"]

EmptyPool == [connections |-> <<>>, next |-> 1]

NoBlocksCall ==
    [pc |-> "none", reconnectAttempts |-> 0, failures |-> 0, attempts |-> <<>>,
     outcome |-> Pending]

ApiIdle ==
    /\ endpoints = <<>>
    /\ network = [chainId |-> "1"]
    /\ apiService = NoApiService
    /\ pool = EmptyPool
    /\ blocksCall = NoBlocksCall

\* EthereumApi before any block is fetched
ReceiptIdle ==
    /\ wrapped = [number |-> 0, fullBodies |-> FALSE, transactions |-> {}]
    /\ rpcCalls = [getBlockByNumber |-> 0, getLogs |-> 0,
                   getTransactionReceipt |-> <<>>]
    /\ receiptCalls = <<>>

\* no query entry asked for
DictIdle ==
    /\ dataSources = <<>>
    /\ queryEntry = [logs |-> <<>>, transactions |-> <<>>, returned |-> "none"]

\* DictionaryV1 before any query: metadataValid is unset, which reads as false
NoDictV1 ==
    [chainId |-> "1",
     metaData |-> [present |-> FALSE, chain |-> "1", genesisHash |-> "0xa",
                   lastProcessedHeight |-> 0],
     startBlock |-> 1, queryFails |-> FALSE, metadataValid |-> FALSE,
     response |-> "none",
     server |-> [distinct |-> TRUE, startHeight |-> TRUE],
     useDistinct |-> TRUE, useStartHeight |-> TRUE, initialized |-> FALSE,
     queries |-> <<>>,
     nodes |-> [entity \in Entities |-> {}], apiFinalizedHeight |-> MaxHeight,
     result |-> [lastBufferedHeight |-> Undefined, batchBlocks |-> <<>>,
                 queryEndBlock |-> Undefined]]

\* JsonRpcBatchProvider as constructed: nothing pending, no timer, nothing sent
NoBatchProvider ==
    [batchSize |-> 1, batchSizeStatus |-> "testing", calls |-> 0,
     pendingBatch |-> 0, aggregator |-> FALSE, sent |-> <<>>, responses |-> <<>>]

\* a caller of getFinalizedBlockHeight that has no call in progress; depth
\* is the depth of the recursion, of which the parity is kept
NoCaller ==
    [pc |-> "idle", later |-> FALSE, tag |-> "none", number |-> Null, ret |-> Null,
     depth |-> 0]

\* EthereumApi as constructed: supportsFinalization = true; down tells
\* whether the endpoint fails every call
NoFinality ==
    [supportsFinalization |-> TRUE, rejected |-> FALSE, down |-> FALSE,
     calls |-> [c \in 1..NumCallers |-> NoCaller]]

ClientIdle ==
    /\ dictV1 = NoDictV1
    /\ batchProvider = NoBatchProvider
    /\ finality = NoFinality

RpcIdle == HttpIdle /\ ApiIdle /\ ReceiptIdle /\ DictIdle /\ ClientIdle

\* ------------------------------------------------------------------ Init
\* the process is started on a chain whose finalized height is f
InitFinalizedAt(f) ==
    /\ RpcIdle
    /\ chain = [h \in Heights |-> 0]
    /\ realFinal = f
    /\ nextBranch = 0
    /\ unfinalizedBlocks = <<>>
    /\ finalizedHeader = NoHeader
    /\ lastCheckedBlockHeight = Undefined
    /\ metadata = [k \in MetaKeys |-> Absent(k)]
    /\ tx = NoTx
    /\ nodeConfig \in [unfinalizedBlocks : BOOLEAN]
    /\ proc = BootProc
    /\ initLog = NoInitLog
    /\ rewound = Null
    /\ latestFinalizedHeight = 0
    /\ fetchPc = "idle"
    /\ lastCall = NoCall
    /\ freeSize = QueueCapacity
    /\ latestBufferedHeight = 0
    /\ queue = <<>>
    /\ lastCommitted = 0
    /\ modulos = <<>>
    /\ bypassBlocks = <<>>

\* ------------------------------------------------------- the environment
\* the chain finalizes further blocks
AdvanceFinalized ==
    /\ UNCHANGED <<latestFinalizedHeight, fetchVars, rpcVars>>
    /\ \E f \in (realFinal + 1)..MaxHeight : realFinal' = f
    /\ UNCHANGED <<chain, nextBranch, unfinalizedBlocks, finalizedHeader,
                   lastCheckedBlockHeight, metadata, tx, nodeConfig, proc, initLog,
                   rewound>>

\* a reorganisation replaces every block from height p up; finalized blocks stay
Reorg ==
    /\ UNCHANGED <<latestFinalizedHeight, fetchVars, rpcVars>>
    /\ nextBranch < MaxBranch
    /\ \E p \in (realFinal + 1)..MaxHeight :
          chain' = [h \in Heights |-> IF h >= p THEN nextBranch + 1 ELSE chain[h]]
    /\ nextBranch' = nextBranch + 1
    /\ UNCHANGED <<realFinal, unfinalizedBlocks, finalizedHeader,
                   lastCheckedBlockHeight, metadata, tx, nodeConfig, proc, initLog,
                   rewound>>

\* the process is stopped (or has exited) and started again, possibly with
\* another configuration; memory is lost, the store is kept
Restart ==
    /\ UNCHANGED <<fetchVars, rpcVars>>
    /\ latestFinalizedHeight' = 0
    /\ proc.pc \in {"idle", "exited"}
    /\ \E c \in [unfinalizedBlocks : BOOLEAN] : nodeConfig' = c
    /\ unfinalizedBlocks' = <<>>
    /\ finalizedHeader' = NoHeader
    /\ lastCheckedBlockHeight' = Undefined
    /\ tx' = NoTx
    /\ proc' = BootProc
    /\ initLog' = NoInitLog
    /\ rewound' = Null
    /\ UNCHANGED <<chain, realFinal, nextBranch, metadata>>

\* ------------------------------------------------------------- the store
\* the reindex callback: one transaction that rewinds the store to
\* targetHeight and resets the tracker's records
ReindexedMeta(meta, targetHeight) ==
    Committed(meta,
        setMetadata(resetLastFinalizedVerifiedHeight(resetUnfinalizedBlocksTx(NewTx)),
                    "lastProcessedHeight", targetHeight))

\* the block is indexed: lastProcessedHeight joins the writes of the
\* transaction, which commits
CommittedBlock(meta, t, height) ==
    Committed(meta, setMetadata(t, "lastProcessedHeight", height))

\* ------------------------------------------------ UnfinalizedBlocksService
\* slip: the negation of the configuration flag is lost
initProcessesNotNegated(config, list) == config.unfinalizedBlocks /\ Len(list) > 0

\* init(): are the records of the previous run to be processed
initProcesses(config, list) == ~config.unfinalizedBlocks /\ Len(list) > 0

\* init(), up to the call of processUnfinalizedBlocks
init ==
    /\ UNCHANGED <<fetchVars, rpcVars>>
    /\ latestFinalizedHeight' = realFinal
    /\ proc.pc = "boot"
    /\ LET list == getMetadataUnfinalizedBlocks(metadata)
           process == initProcesses(nodeConfig, list)
       IN  /\ unfinalizedBlocks' = list
           /\ lastCheckedBlockHeight' = getLastFinalizedVerifiedHeight(metadata)
           /\ finalizedHeader' = getBlockByHeight(realFinal)
           /\ tx' = IF process THEN NewTx ELSE NoTx
           /\ proc' = IF process
                      THEN [IdleProc EXCEPT !.pc = "hasForked", !.inInit = TRUE]
                      ELSE IdleProc
           /\ initLog' = [NoInitLog EXCEPT !.done = ~process,
                                           !.hadRecords = Len(list) > 0,
                                           !.unfinalizedBlocks = nodeConfig.unfinalizedBlocks,
                                           !.ranProcess = process]
    /\ UNCHANGED <<chain, realFinal, nextBranch, metadata, nodeConfig, rewound>>

\* the indexer takes the next block: processUnfinalizedBlocks(block, tx) up to
\* the end of registerUnfinalizedBlock
processBlock ==
    /\ UNCHANGED <<latestFinalizedHeight, fetchVars, rpcVars>>
    /\ proc.pc = "idle"
    /\ LET height == LastProcessedHeight + 1
           block == getBlockByHeight(height)
           outcome == RegisterOutcome(unfinalizedBlocks, finalizedBlockNumber, height)
           list == Append(unfinalizedBlocks, <<block.number, block.hash>>)
       IN  /\ height <= MaxHeight
           /\ height <= LatestHeight
           /\ CASE outcome = "dropped" ->
                     /\ proc' = [IdleProc EXCEPT !.pc = "hasForked", !.block = height]
                     /\ tx' = NewTx
                     /\ UNCHANGED unfinalizedBlocks
                [] outcome = "fatal" ->
                     /\ proc' = [ExitedProc EXCEPT !.block = height]
                     /\ tx' = NoTx
                     /\ UNCHANGED unfinalizedBlocks
                [] outcome = "appended" ->
                     /\ proc' = [IdleProc EXCEPT !.pc = "hasForked", !.block = height,
                                                 !.io = TRUE]
                     /\ unfinalizedBlocks' = list
                     /\ tx' = saveUnfinalizedBlocks(NewTx, list)
    /\ UNCHANGED <<chain, realFinal, nextBranch, finalizedHeader,
                   lastCheckedBlockHeight, metadata, nodeConfig, initLog, rewound>>

\* processUnfinalizedBlocks: the hasForked call
checkFork ==
    /\ UNCHANGED <<latestFinalizedHeight, fetchVars, rpcVars>>
    /\ proc.pc = "hasForked"
    /\ proc' = [proc EXCEPT !.pc = "branch",
                            !.forked = hasForked(unfinalizedBlocks, finalizedHeader),
                            !.verified = finalizedHeader.number,
                            !.io = hasForkedAwaits(unfinalizedBlocks, finalizedHeader)]
    /\ UNCHANGED <<chain, realFinal, nextBranch, unfinalizedBlocks, finalizedHeader,
                   lastCheckedBlockHeight, metadata, tx, nodeConfig, initLog, rewound>>

\* deleteFinalizedBlock: is there anything newly finalized to remove
deleteCondition(lastChecked, fin) ==
    lastChecked # Undefined /\ JsLess(lastChecked, fin)

\* processUnfinalizedBlocks after hasForked: deleteFinalizedBlock up to its
\* first await, or the start of getLastCorrectFinalizedBlock
branch ==
    /\ UNCHANGED <<latestFinalizedHeight, fetchVars, rpcVars>>
    /\ proc.pc = "branch"
    /\ IF ~proc.forked
       THEN IF deleteCondition(lastCheckedBlockHeight, finalizedBlockNumber)
            THEN LET list == removeFinalized(unfinalizedBlocks, finalizedBlockNumber)
                 IN  /\ unfinalizedBlocks' = list
                     /\ tx' = saveUnfinalizedBlocks(
                                 saveLastFinalizedVerifiedHeight(tx, finalizedBlockNumber),
                                 list)
                     /\ proc' = [proc EXCEPT !.pc = "deleteTail", !.io = TRUE]
                     /\ UNCHANGED lastCheckedBlockHeight
            ELSE /\ lastCheckedBlockHeight' = finalizedBlockNumber
                 /\ proc' = [proc EXCEPT !.pc = "return", !.ret = Null, !.io = FALSE]
                 /\ UNCHANGED <<unfinalizedBlocks, tx>>
       ELSE /\ proc' = [proc EXCEPT !.pc = "glc", !.io = FALSE,
                           !.best = bestVerifiableBlocks(unfinalizedBlocks,
                                                         finalizedBlockNumber),
                           !.rest = bestVerifiableBlocks(unfinalizedBlocks,
                                                         finalizedBlockNumber),
                           !.checking = finalizedHeader]
            /\ UNCHANGED <<unfinalizedBlocks, tx, lastCheckedBlockHeight>>
    /\ UNCHANGED <<chain, realFinal, nextBranch, finalizedHeader, metadata,
                   nodeConfig, initLog, rewound>>

\* deleteFinalizedBlock after its awaits: the last statement
deleteTail ==
    /\ UNCHANGED <<latestFinalizedHeight, fetchVars, rpcVars>>
    /\ proc.pc = "deleteTail"
    /\ lastCheckedBlockHeight' = finalizedBlockNumber
    /\ proc' = [proc EXCEPT !.pc = "return", !.ret = Null, !.io = FALSE]
    /\ UNCHANGED <<chain, realFinal, nextBranch, unfinalizedBlocks, finalizedHeader,
                   metadata, tx, nodeConfig, initLog, rewound>>

\* getLastCorrectFinalizedBlock: one iteration of the loop, or the fallback
getLastCorrectFinalizedBlock ==
    /\ UNCHANGED <<latestFinalizedHeight, fetchVars, rpcVars>>
    /\ proc.pc = "glc"
    /\ IF proc.rest = <<>>
       THEN proc' = [proc EXCEPT !.pc = "return", !.ret = lastCheckedBlockHeight,
                                 !.io = FALSE]
       ELSE IF RecordMatches(Head(proc.rest), proc.checking)
            THEN proc' = [proc EXCEPT !.pc = "return", !.ret = Head(proc.rest)[1],
                                      !.io = FALSE]
            ELSE proc' = [proc EXCEPT !.rest = Tail(proc.rest), !.io = TRUE,
                             !.checking = getBlockByHash(finalizedHeader.parentHash)]
    /\ UNCHANGED <<chain, realFinal, nextBranch, unfinalizedBlocks, finalizedHeader,
                   lastCheckedBlockHeight, metadata, tx, nodeConfig, initLog, rewound>>

\* init() after processUnfinalizedBlocks has returned
initReturn ==
    /\ UNCHANGED <<latestFinalizedHeight, fetchVars, rpcVars>>
    /\ proc.pc = "return"
    /\ proc.inInit
    /\ IF proc.ret # Null
       THEN /\ initLog' = [initLog EXCEPT !.done = TRUE, !.result = proc.ret,
                              !.reindexCalls = Append(initLog.reindexCalls, proc.ret)]
            /\ IF IsNum(proc.ret)
               THEN /\ metadata' = ReindexedMeta(metadata, proc.ret)
                    /\ unfinalizedBlocks' = resetUnfinalizedBlocksList(unfinalizedBlocks)
                    /\ proc' = IdleProc
                    /\ rewound' = proc.ret
               ELSE /\ proc' = ExitedProc
                    /\ UNCHANGED <<metadata, unfinalizedBlocks, rewound>>
            /\ UNCHANGED tx
       ELSE /\ initLog' = [initLog EXCEPT !.done = TRUE, !.result = Null]
            /\ unfinalizedBlocks' = resetUnfinalizedBlocksList(unfinalizedBlocks)
            /\ metadata' = Committed(metadata,
                              resetLastFinalizedVerifiedHeight(resetUnfinalizedBlocksTx(tx)))
            /\ tx' = NoTx
            /\ proc' = IdleProc
            /\ UNCHANGED rewound
    /\ UNCHANGED <<chain, realFinal, nextBranch, finalizedHeader,
                   lastCheckedBlockHeight, nodeConfig>>

\* the indexer after processUnfinalizedBlocks has returned: commit the block,
\* or roll back and rewind
blockReturn ==
    /\ UNCHANGED <<latestFinalizedHeight, fetchVars, rpcVars>>
    /\ proc.pc = "return"
    /\ ~proc.inInit
    /\ IF proc.ret = Null
       THEN /\ metadata' = CommittedBlock(metadata, tx, proc.block)
            /\ proc' = IdleProc
            /\ rewound' = Null
            /\ UNCHANGED unfinalizedBlocks
       ELSE IF IsNum(proc.ret)
            THEN /\ metadata' = ReindexedMeta(metadata, proc.ret)
                 /\ unfinalizedBlocks' = resetUnfinalizedBlocksList(unfinalizedBlocks)
                 /\ proc' = IdleProc
                 /\ rewound' = proc.ret
            ELSE /\ proc' = ExitedProc
                 /\ UNCHANGED <<metadata, unfinalizedBlocks, rewound>>
    /\ tx' = NoTx
    /\ UNCHANGED <<chain, realFinal, nextBranch, finalizedHeader,
                   lastCheckedBlockHeight, nodeConfig, initLog>>

\* FetchService.getFinalizedHeight, run by the chain-tip poll: it can run
\* whenever the indexer is idle or suspended at an await
getFinalizedHeight ==
    /\ proc.pc \notin {"boot", "exited"}
    /\ ~proc.inInit
    /\ proc.pc = "idle" \/ proc.io
    /\ \E h \in {realFinal - 1, realFinal} \cap Heights :
          /\ finalizedHeader' = registerFinalizedBlock(finalizedHeader, getBlockByHeight(h))
          /\ latestFinalizedHeight' = h
    /\ UNCHANGED <<chain, realFinal, nextBranch, unfinalizedBlocks,
                   lastCheckedBlockHeight, metadata, tx, nodeConfig, proc, initLog,
                   rewound, fetchVars, rpcVars>>

Next ==
    \/ AdvanceFinalized
    \/ Reorg
    \/ Restart
    \/ init
    \/ processBlock
    \/ checkFork
    \/ branch
    \/ deleteTail
    \/ getLastCorrectFinalizedBlock
    \/ initReturn
    \/ blockReturn
    \/ getFinalizedHeight

Init == InitFinalizedAt(1)

Spec == Init /\ [][Next]_vars

\* the same process on a chain of which only the genesis block is finalized
InitGenesis == InitFinalizedAt(0)

SpecGenesis == InitGenesis /\ [][Next]_vars

\* ------------------------------------------------------------ fetch loop
Min(a, b) == IF a < b THEN a ELSE b

\* lodash range(from, to + 1)
Range(from, to) == [i \in 1..(to - from + 1) |-> from + i - 1]

RECURSIVE Ascending(_)
\* the heights of a set in ascending order
Ascending(set) ==
    IF set = {} THEN <<>>
    ELSE LET least == CHOOSE x \in set : \A y \in set : x <= y
         IN  <<least>> \o Ascending(set \ {least})

\* the cursor of the fetch loop
nextHeight == latestBufferedHeight + 1

\* end of the range asked of the dictionary
queryEnd(start, target) == Min(start + BatchSize, target)

\* what a dictionary can answer for [start, end] with a page limit: matching
\* heights in ascending order, and the height its answer covers
DictionaryResults(start, end, limit) ==
    {[batchBlocks |-> Ascending(m),
      lastBufferedHeight |->
          IF Cardinality(m) = limit THEN Ascending(m)[limit] ELSE end] :
        m \in {x \in SUBSET (start..end) : Cardinality(x) <= limit}}

\* dense enumeration when no dictionary is used
DenseResult(start) ==
    [batchBlocks |-> Range(start, start + BatchSize - 1),
     lastBufferedHeight |-> start + BatchSize - 1]

\* the batch is cut to the free slots of the dispatcher
Truncate(heights, free) == SubSeq(heights, 1, Min(Len(heights), free))

\* slip: the range of the multiples runs one past upTo
getModuloBlocksPastEnd(mods, start, upTo) ==
    {h \in start..(upTo + 1) : \E i \in 1..Len(mods) : h % mods[i] = 0}

\* getModuloBlocks: the multiples of a modulo between start and upTo
getModuloBlocks(mods, start, upTo) ==
    {h \in start..upTo : \E i \in 1..Len(mods) : h % mods[i] = 0}

\* the heights of a batch, as a set
Elements(heights) == {heights[i] : i \in 1..Len(heights)}

\* mergeNumAndBlocks: modulo blocks and batch blocks, ordered, without duplicates
mergeNumAndBlocks(moduloBlocks, batchBlocks) ==
    Ascending(moduloBlocks \cup Elements(batchBlocks))

\* an entry of bypassBlocks: a height, or a range string such as "2-5"
BypassNumber(n) == [range |-> FALSE, lo |-> n, hi |-> n]

BypassRange(lo, hi) == [range |-> TRUE, lo |-> lo, hi |-> hi]

\* slip: the upper end of a range is left out
transformBypassBlocksHalfOpen(entries) ==
    UNION {IF entries[i].range THEN entries[i].lo..(entries[i].hi - 1)
                               ELSE {entries[i].lo} : i \in 1..Len(entries)}

\* transformBypassBlocks: range strings are expanded, both ends included
transformBypassBlocks(entries) ==
    UNION {IF entries[i].range THEN entries[i].lo..entries[i].hi ELSE {entries[i].lo} :
              i \in 1..Len(entries)}

\* filteredBlockBatch: the batch without the bypassed heights
filteredBlockBatch(heights, bypass) ==
    SelectSeq(heights, LAMBDA h : h \notin bypass)

\* the up-to height of the call: the last height when the batch was cut (the
\* height before the first one left when none was taken), so that the
\* remainder is fetched again, else the height the batch covers
getLatestBufferHeight(heights, cleaned, lastBuffered) ==
    IF Len(heights) = Len(cleaned) THEN lastBuffered
    ELSE IF Len(heights) > 0 THEN heights[Len(heights)]
    ELSE cleaned[1] - 1

\* slip: each call takes one slot too many
enqueueBlocksFreeSizeOneMore(free, heights) == free - Len(heights) - 1

\* the dispatcher double of the fetch service test: enqueueBlocks
enqueueBlocksFreeSize(free, heights) == free - Len(heights)

\* slip: an empty call stops one short of the height it covers
enqueueBlocksLatestBufferedHeightShort(heights, latestBufferHeight) ==
    IF Len(heights) > 0 THEN heights[Len(heights)] ELSE latestBufferHeight - 1

enqueueBlocksLatestBufferedHeight(heights, latestBufferHeight) ==
    IF Len(heights) > 0 THEN heights[Len(heights)] ELSE latestBufferHeight

\* the heights enter the queue of the dispatcher, not yet fetched
Enqueued(q, heights) ==
    q \o [i \in 1..Len(heights) |-> [height |-> heights[i], st |-> "queued"]]

\* slip: whichever block is fetched first is committed first
NextCommitAnyFetched(q) ==
    IF \E i \in 1..Len(q) : q[i].st = "fetched"
    THEN CHOOSE i \in 1..Len(q) : q[i].st = "fetched" /\ \A j \in 1..(i - 1) : q[j].st # "fetched"
    ELSE 0

\* the block the dispatcher commits next: the head of the queue, once fetched
NextCommit(q) == IF Len(q) > 0 /\ q[1].st = "fetched" THEN 1 ELSE 0

Remove(q, i) == SubSeq(q, 1, i - 1) \o SubSeq(q, i + 1, Len(q))

\* slip: a full dispatcher passes the test
hasCapacityAlways(free) == free >= 0

\* backpressure: the loop goes on only when the dispatcher has a free slot
hasCapacity(free) == free > 0

\* the loop wakes with free capacity and a cursor not past the target
loopCheck ==
    /\ fetchPc = "idle"
    /\ hasCapacity(freeSize)
    /\ nextHeight <= latestFinalizedHeight
    /\ fetchPc' = "fetching"
    /\ UNCHANGED <<trackerVars, rpcVars, fetchConfig, latestFinalizedHeight, lastCall, freeSize,
                   latestBufferedHeight, queue, lastCommitted>>

\* the batch is computed and enqueueBlocks is called
loopEnqueue ==
    /\ fetchPc = "fetching"
    /\ \E result \in DictionaryResults(nextHeight,
                        queryEnd(nextHeight, latestFinalizedHeight), BatchSize)
                     \cup {DenseResult(nextHeight)} :
          LET merged == mergeNumAndBlocks(
                            getModuloBlocks(modulos, nextHeight,
                                            result.lastBufferedHeight),
                            result.batchBlocks)
              cleaned == filteredBlockBatch(merged,
                                            transformBypassBlocks(bypassBlocks))
              heights == Truncate(cleaned, freeSize)
              upTo == getLatestBufferHeight(heights, cleaned, result.lastBufferedHeight)
          IN  /\ lastCall' = [heights |-> heights, upTo |-> upTo,
                              freeBefore |-> freeSize, start |-> nextHeight,
                              batchBlocks |-> result.batchBlocks,
                              lastBufferedHeight |-> result.lastBufferedHeight]
              /\ freeSize' = enqueueBlocksFreeSize(freeSize, heights)
              /\ latestBufferedHeight' =
                    enqueueBlocksLatestBufferedHeight(heights, upTo)
              /\ queue' = Enqueued(queue, heights)
    /\ fetchPc' = "enqueuing"
    /\ UNCHANGED <<trackerVars, rpcVars, fetchConfig, latestFinalizedHeight, lastCommitted>>

\* enqueueBlocks has returned; the loop starts over
loopContinue ==
    /\ fetchPc = "enqueuing"
    /\ fetchPc' = "idle"
    /\ lastCall' = NoCall
    /\ UNCHANGED <<trackerVars, rpcVars, fetchConfig, latestFinalizedHeight, freeSize,
                   latestBufferedHeight, queue, lastCommitted>>

\* a free worker is handed the lowest height nobody fetches yet
workerTake ==
    /\ Cardinality({i \in 1..Len(queue) : queue[i].st = "fetching"}) < NumWorkers
    /\ \E i \in 1..Len(queue) :
          /\ queue[i].st = "queued"
          /\ \A j \in 1..(i - 1) : queue[j].st # "queued"
          /\ queue' = [queue EXCEPT ![i].st = "fetching"]
    /\ UNCHANGED <<trackerVars, rpcVars, fetchConfig, latestFinalizedHeight, fetchPc, lastCall, freeSize,
                   latestBufferedHeight, lastCommitted>>

\* a worker finishes fetching its block; workers finish in any order
workerFetched ==
    /\ \E i \in 1..Len(queue) :
          /\ queue[i].st = "fetching"
          /\ queue' = [queue EXCEPT ![i].st = "fetched"]
    /\ UNCHANGED <<trackerVars, rpcVars, fetchConfig, latestFinalizedHeight, fetchPc, lastCall, freeSize,
                   latestBufferedHeight, lastCommitted>>

\* the dispatcher processes and commits a block and frees its slot
dispatcherCommit ==
    /\ NextCommit(queue) # 0
    /\ lastCommitted' = queue[NextCommit(queue)].height
    /\ queue' = Remove(queue, NextCommit(queue))
    /\ freeSize' = freeSize + 1
    /\ UNCHANGED <<trackerVars, rpcVars, fetchConfig, latestFinalizedHeight, fetchPc, lastCall,
                   latestBufferedHeight>>

\* the configurations tried: no modulo handler, one, two
ModuloChoices == {<<>>, <<2>>, <<3>>, <<2, 3>>}

\* the configurations tried: nothing bypassed, a height, a range, both
BypassChoices ==
    {<<>>, <<BypassNumber(3)>>, <<BypassRange(2, 3)>>,
     <<BypassNumber(1), BypassRange(3, 4)>>}

InitFetch ==
    /\ RpcIdle
    /\ chain = [h \in Heights |-> 0]
    /\ realFinal = 1
    /\ nextBranch = 0
    /\ unfinalizedBlocks = <<>>
    /\ finalizedHeader = BlockAt(1)
    /\ lastCheckedBlockHeight = Undefined
    /\ metadata = [k \in MetaKeys |-> Absent(k)]
    /\ tx = NoTx
    /\ nodeConfig = [unfinalizedBlocks |-> FALSE]
    /\ proc = IdleProc
    /\ initLog = NoInitLog
    /\ rewound = Null
    /\ latestFinalizedHeight = 1
    /\ fetchPc = "idle"
    /\ lastCall = NoCall
    /\ freeSize = QueueCapacity
    /\ latestBufferedHeight = 0
    /\ queue = <<>>
    /\ lastCommitted = 0
    /\ modulos \in ModuloChoices
    /\ bypassBlocks \in BypassChoices

NextFetch ==
    \/ AdvanceFinalized
    \/ getFinalizedHeight
    \/ loopCheck
    \/ loopEnqueue
    \/ loopContinue
    \/ workerTake
    \/ workerFetched
    \/ dispatcherCommit

SpecFetch == InitFetch /\ [][NextFetch]_vars

\* the event loop runs every continuation that is ready: the loop, the workers
\* and the dispatcher all make progress
FairFetch ==
    /\ SpecFetch
    /\ WF_vars(loopCheck)
    /\ WF_vars(loopEnqueue)
    /\ WF_vars(loopContinue)
    /\ WF_vars(workerTake)
    /\ WF_vars(workerFetched)
    /\ WF_vars(dispatcherCommit)

\* ----------------------------------------------------- _fetchData (HTTP)
MaxThrottleLimit == 3

DefaultThrottleLimit == 12

\* the status codes the code tells apart
StatusOk == 200
StatusMoved == 301
StatusNotModified == 304
StatusRateLimited == 429
StatusServerError == 500

\* the idle indexer around the RPC client
IndexerIdle ==
    /\ chain = [h \in Heights |-> 0]
    /\ realFinal = 1
    /\ nextBranch = 0
    /\ unfinalizedBlocks = <<>>
    /\ finalizedHeader = BlockAt(1)
    /\ lastCheckedBlockHeight = Undefined
    /\ metadata = [k \in MetaKeys |-> Absent(k)]
    /\ tx = NoTx
    /\ nodeConfig = [unfinalizedBlocks |-> FALSE]
    /\ proc = IdleProc
    /\ initLog = NoInitLog
    /\ rewound = Null
    /\ latestFinalizedHeight = 1
    /\ fetchPc = "idle"
    /\ lastCall = NoCall
    /\ freeSize = QueueCapacity
    /\ latestBufferedHeight = 0
    /\ queue = <<>>
    /\ lastCommitted = 0
    /\ modulos = <<>>
    /\ bypassBlocks = <<>>

indexerVars == <<trackerVars, latestFinalizedHeight, fetchVars>>

\* attemptLimit: connection.throttleLimit, or 12 when it is not given
attemptLimit(conn) ==
    IF conn.throttleLimit # Null THEN conn.throttleLimit ELSE DefaultThrottleLimit

\* the assert of ethers utils throws when its first argument is falsy; the
\* calls of _fetchData pass the error info object in that place
InfoObject == TRUE

assertThrows(check) == ~check

\* what getUrl can answer: a response, or an error with or without a response
Responses ==
    {[thrown |-> FALSE, status |-> st, https |-> TRUE] :
        st \in {StatusOk, StatusNotModified, StatusRateLimited, StatusServerError}}
    \cup {[thrown |-> FALSE, status |-> StatusMoved, https |-> l] : l \in BOOLEAN}
    \cup {[thrown |-> TRUE, status |-> st, https |-> TRUE] :
            st \in {Null, StatusServerError}}

\* Promise.race: the first promise to settle decides, later ones are ignored
race(result, settled) ==
    IF result.state = "pending" /\ settled.state # "pending" THEN settled ELSE result

\* slip: the loop runs while attempt <= attemptLimit
loopContinuesInclusive(attempt, limit) == attempt <= limit

\* the guard of the attempt loop
loopContinues(attempt, limit) == attempt < limit

\* runningFetch settles: the timer is cancelled where the code cancels it
settle(h, outcome, cancel) ==
    [h EXCEPT !.pc = "done", !.ctx = "none", !.status = Null,
              !.timer = IF cancel THEN FALSE ELSE @,
              !.runningFetch = outcome,
              !.result = race(@, outcome)]

\* continue: the next iteration calls getUrl, or the loop is over and the
\* function returns what assert returns
nextAttempt(h, conn, kind) ==
    LET counted == [h EXCEPT !.attempt = @ + 1, !.retries = @ \cup {kind}] IN
    IF loopContinues(counted.attempt, attemptLimit(conn))
    THEN [counted EXCEPT !.pc = "getUrl", !.ctx = "none", !.status = Null,
                         !.requests = @ + 1]
    ELSE settle(counted,
                IF assertThrows(InfoObject) THEN Rejected("SERVER_ERROR")
                                            ELSE Resolved("undefined"),
                FALSE)

\* an error of the response processor that is not retried, and the end of
\* the iteration without a processor: the body is returned
returnBody(h, conn, status) ==
    settle(h, Resolved(IF conn.allow304 /\ status = StatusNotModified
                       THEN "null" ELSE "body"), TRUE)

\* the code after the try block: status check, then the response processor
bodySection(h, conn, status) ==
    LET bad == /\ ~(conn.allow304 /\ status = StatusNotModified)
               /\ ~conn.errorPassThrough
               /\ (status < 200 \/ status >= 300)
    IN  IF bad /\ assertThrows(InfoObject)
        THEN settle(h, Rejected("SERVER_ERROR"), TRUE)
        ELSE IF conn.processFunc
             THEN [h EXCEPT !.pc = "processFunc", !.ctx = "none", !.status = status,
                            !.timer = IF bad THEN FALSE ELSE @]
             ELSE returnBody(h, conn, status)

\* throttling: ask throttleCallback when there is one, then stall
throttle(h, conn, kind, status) ==
    [h EXCEPT !.pc = IF conn.throttleCallback THEN "throttleCallback" ELSE "staller",
              !.ctx = kind, !.status = status]

\* getUrl answers
getUrlReturns(h, conn, resp) ==
    IF resp.thrown
    THEN IF resp.status = Null
         THEN \* no response: cancel, assert, then response.body of null
              settle(h, IF assertThrows(InfoObject) THEN Rejected("SERVER_ERROR")
                                                    ELSE Rejected("TypeError"), TRUE)
         ELSE bodySection(h, conn, resp.status)
    ELSE IF resp.status = StatusMoved
         THEN IF conn.method = "GET" /\ resp.https
              THEN nextAttempt(h, conn, "redirect")
              ELSE bodySection(h, conn, resp.status)
    ELSE IF resp.status = StatusRateLimited
         THEN IF h.attempt = attemptLimit(conn) - 1
              THEN \* 'rate limited' is thrown with the response and caught
                   bodySection(h, conn, resp.status)
              ELSE throttle(h, conn, "429", resp.status)
    ELSE bodySection(h, conn, resp.status)

\* _fetchData is called: the timer is armed and the first getUrl is issued
fetchData ==
    /\ http.pc = "none"
    /\ http' = [NoHttp EXCEPT !.pc = "getUrl", !.requests = 1, !.timer = TRUE]
    /\ UNCHANGED <<indexerVars, clientVars, apiVars, receiptVars, dictVars, connection>>

getUrl ==
    /\ http.pc = "getUrl"
    /\ \E resp \in Responses : http' = getUrlReturns(http, connection, resp)
    /\ UNCHANGED <<indexerVars, clientVars, apiVars, receiptVars, dictVars, connection>>

throttleCallback ==
    /\ http.pc = "throttleCallback"
    /\ \E tryAgain \in BOOLEAN :
          http' = IF tryAgain THEN [http EXCEPT !.pc = "staller"]
                  ELSE IF http.ctx = "429"
                       THEN bodySection(http, connection, http.status)
                       ELSE returnBody(http, connection, http.status)
    /\ UNCHANGED <<indexerVars, clientVars, apiVars, receiptVars, dictVars, connection>>

stallerDone ==
    /\ http.pc = "staller"
    /\ http' = nextAttempt(http, connection, http.ctx)
    /\ UNCHANGED <<indexerVars, clientVars, apiVars, receiptVars, dictVars, connection>>

processFunc ==
    /\ http.pc = "processFunc"
    /\ \/ http' = settle(http, Resolved("result"), TRUE)
       \/ \E throttleRetry \in BOOLEAN :
            http' = IF throttleRetry /\ http.attempt < attemptLimit(connection)
                    THEN throttle(http, connection, "processor", http.status)
                    ELSE returnBody(http, connection, http.status)
    /\ UNCHANGED <<indexerVars, clientVars, apiVars, receiptVars, dictVars, connection>>

\* the timer callback: reject(assert(...))
timeoutFires ==
    /\ http.timer
    /\ LET outcome == IF assertThrows(InfoObject) THEN http.timeoutPromise
                                                  ELSE Rejected("undefined")
       IN http' = [http EXCEPT !.timer = FALSE,
                               !.timeoutPromise = outcome,
                               !.result = race(@, outcome)]
    /\ UNCHANGED <<indexerVars, clientVars, apiVars, receiptVars, dictVars, connection>>

Connections ==
    [throttleLimit : {Null} \cup 1..MaxThrottleLimit, method : {"GET", "POST"},
     errorPassThrough : BOOLEAN, processFunc : BOOLEAN, throttleCallback : BOOLEAN,
     allow304 : BOOLEAN]

InitHttp ==
    /\ IndexerIdle
    /\ ClientIdle
    /\ ApiIdle
    /\ ReceiptIdle
    /\ DictIdle
    /\ connection \in Connections
    /\ http = NoHttp

NextHttp ==
    \/ fetchData
    \/ getUrl
    \/ throttleCallback
    \/ stallerDone
    \/ processFunc
    \/ timeoutFires

SpecHttp == InitHttp /\ [][NextHttp]_vars

\* getUrl, the callbacks and the stall all come back
FairHttp ==
    /\ SpecHttp
    /\ WF_vars(fetchData)
    /\ WF_vars(getUrl)
    /\ WF_vars(throttleCallback)
    /\ WF_vars(stallerDone)
    /\ WF_vars(processFunc)

\* ------------------------------------------------- EthereumApiService
MaxEndpoints == 2

MAX_RECONNECT_ATTEMPTS == 5

\* the chain ids an endpoint may report
ChainIds == {1, 5}

\* Number.prototype.toString for the chain ids in use
chainIdToString(n) == CASE n = 1 -> "1" [] n = 5 -> "5" [] OTHER -> "?"

\* the endpoint lists of a project: each endpoint reports a chain id, or
\* cannot be connected to at all
EndpointLists ==
    UNION {[1..n -> ChainIds \cup {Null}] : n \in 1..MaxEndpoints}

\* slip: the chain id of a connection is not compared
chainIdMismatchSkipped(net, reported) == FALSE

\* network.chainId !== api.getChainId().toString()
chainIdMismatch(net, reported) == net.chainId # chainIdToString(reported)

\* addBatchToConnections: the pool holds the connections in endpoint order
addBatchToConnections(p, connections) ==
    [p EXCEPT !.connections = @ \o connections]

\* the pool hands out its connections in turn
poolApi(p) == p.connections[p.next]

poolAdvance(p) == [p EXCEPT !.next = (@ % Len(p.connections)) + 1]

\* init: one callback per endpoint resumes when its connection is created
apiInit ==
    /\ apiService.pc = "none"
    /\ apiService' = [apiService EXCEPT !.pc = "creating"]
    /\ UNCHANGED <<indexerVars, clientVars, httpVars, receiptVars, dictVars, endpoints, network, pool, blocksCall>>

connectionCreated ==
    /\ apiService.pc = "creating"
    /\ \E i \in (1..Len(endpoints)) \ apiService.created :
          LET meta == IF apiService.networkMeta = Null THEN i
                      ELSE apiService.networkMeta
          IN  IF endpoints[i] = Null
              THEN \* create() throws: Promise.all rejects, init exits
                   /\ apiService' = [apiService EXCEPT !.pc = "exited",
                                                       !.error = "connection"]
                   /\ UNCHANGED pool
              ELSE IF chainIdMismatch(network, endpoints[i])
              THEN /\ apiService' = [apiService EXCEPT !.pc = "exited",
                                                       !.networkMeta = meta,
                                                       !.error = "ChainId"]
                   /\ UNCHANGED pool
              ELSE LET created == apiService.created \cup {i} IN
                   IF created = 1..Len(endpoints)
                   THEN /\ apiService' = [apiService EXCEPT !.pc = "done",
                                                            !.networkMeta = meta,
                                                            !.created = created]
                        /\ pool' = addBatchToConnections(
                                       pool, [k \in 1..Len(endpoints) |-> k])
                   ELSE /\ apiService' = [apiService EXCEPT !.networkMeta = meta,
                                                            !.created = created]
                        /\ UNCHANGED pool
    /\ UNCHANGED <<indexerVars, clientVars, httpVars, receiptVars, dictVars, endpoints, network, blocksCall>>

\* slip: one attempt too many
moreAttemptsInclusive(reconnectAttempts) == reconnectAttempts <= MAX_RECONNECT_ATTEMPTS

\* the guard of the retry loop
moreAttempts(reconnectAttempts) == reconnectAttempts < MAX_RECONNECT_ATTEMPTS

\* fetchBlocks: the first attempt on the connection the pool hands out
fetchBlocks ==
    /\ apiService.pc = "done"
    /\ blocksCall.pc = "none"
    /\ blocksCall' = [NoBlocksCall EXCEPT !.pc = "initial",
                                          !.attempts = <<poolApi(pool)>>]
    /\ pool' = poolAdvance(pool)
    /\ UNCHANGED <<indexerVars, clientVars, httpVars, receiptVars, dictVars, endpoints, network, apiService>>

\* api.fetchBlocks of the attempt in flight succeeds
attemptSucceeds ==
    /\ blocksCall.pc \in {"initial", "retrying"}
    /\ blocksCall' = [blocksCall EXCEPT !.pc = "done",
                                        !.outcome = Resolved(Len(blocksCall.attempts))]
    /\ UNCHANGED <<indexerVars, clientVars, httpVars, receiptVars, dictVars, endpoints, network, apiService, pool>>

\* api.fetchBlocks of the attempt in flight fails
attemptFails ==
    /\ blocksCall.pc \in {"initial", "retrying"}
    /\ LET n == IF blocksCall.pc = "initial" THEN 0
                ELSE blocksCall.reconnectAttempts + 1
       IN  IF moreAttempts(n)
           THEN /\ blocksCall' = [blocksCall EXCEPT
                                    !.pc = "retrying",
                                    !.reconnectAttempts = n,
                                    !.failures = @ + 1,
                                    !.attempts = Append(@, poolApi(pool))]
                /\ pool' = poolAdvance(pool)
           ELSE /\ blocksCall' = [blocksCall EXCEPT
                                    !.pc = "done",
                                    !.reconnectAttempts = n,
                                    !.failures = @ + 1,
                                    !.outcome = Rejected("max retries")]
                /\ UNCHANGED pool
    /\ UNCHANGED <<indexerVars, clientVars, httpVars, receiptVars, dictVars, endpoints, network, apiService>>

\* the caller takes the outcome; the next batch can be asked for
blocksReturn ==
    /\ blocksCall.pc = "done"
    /\ blocksCall' = NoBlocksCall
    /\ UNCHANGED <<indexerVars, clientVars, httpVars, receiptVars, dictVars, endpoints, network, apiService, pool>>

InitApi ==
    /\ IndexerIdle
    /\ ClientIdle
    /\ HttpIdle
    /\ ReceiptIdle
    /\ DictIdle
    /\ endpoints \in EndpointLists
    /\ network \in [chainId : {chainIdToString(c) : c \in ChainIds}]
    /\ apiService = NoApiService
    /\ pool = EmptyPool
    /\ blocksCall = NoBlocksCall

NextApi ==
    \/ apiInit
    \/ connectionCreated
    \/ fetchBlocks
    \/ attemptSucceeds
    \/ attemptFails
    \/ blocksReturn

SpecApi == InitApi /\ [][NextApi]_vars

\* connections get created and every api.fetchBlocks comes back
FairApi ==
    /\ SpecApi
    /\ WF_vars(apiInit)
    /\ WF_vars(connectionCreated)
    /\ WF_vars(attemptSucceeds \/ attemptFails)

\* ------------------------------------------------ EthereumApi.fetchBlock
MaxTransactions == 3

MaxReceiptCalls == 2

Transactions == 1..MaxTransactions

\* includeTx is optional: a caller passes true, false or nothing
IncludeTxArgs == {"true", "false", "undefined"}

\* getBlockPromise(num, includeTx = true): the default applies to undefined
getBlockPromiseIncludeTx(includeTx) == includeTx # "false"

\* includeTx ? block.transactions.map(...) : []
wrappedTransactions(includeTx, transactions) ==
    IF includeTx = "true" THEN transactions ELSE {}

\* receipt: () => this.getTransactionReceipt(tx): every call asks the node
receiptRequests(issued) == 1

\* fetchBlock: eth_getBlockByNumber and eth_getLogs, then the wrapped block
fetchBlock ==
    /\ wrapped.number < MaxHeight
    /\ \E includeTx \in IncludeTxArgs, n \in 0..MaxTransactions :
          /\ wrapped' = [number |-> wrapped.number + 1,
                         fullBodies |-> getBlockPromiseIncludeTx(includeTx),
                         transactions |-> wrappedTransactions(includeTx, 1..n)]
          /\ rpcCalls' = [getBlockByNumber |-> 1, getLogs |-> 1,
                          getTransactionReceipt |-> [t \in Transactions |-> 0]]
          /\ receiptCalls' = [t \in Transactions |-> 0]
    /\ UNCHANGED <<indexerVars, clientVars, httpVars, apiVars, dictVars>>

\* a handler calls receipt() of a transaction of the wrapped block
receipt ==
    /\ \E t \in wrapped.transactions :
          /\ receiptCalls[t] < MaxReceiptCalls
          /\ receiptCalls' = [receiptCalls EXCEPT ![t] = @ + 1]
          /\ rpcCalls' = [rpcCalls EXCEPT !.getTransactionReceipt[t] =
                              @ + receiptRequests(@)]
    /\ UNCHANGED <<indexerVars, clientVars, httpVars, apiVars, dictVars, wrapped>>

InitReceipt ==
    /\ IndexerIdle
    /\ ClientIdle
    /\ HttpIdle
    /\ ApiIdle
    /\ ReceiptIdle
    /\ DictIdle

NextReceipt ==
    \/ fetchBlock
    \/ receipt

SpecReceipt == InitReceipt /\ [][NextReceipt]_vars

\* ------------------------------------------ buildDictionaryV2QueryEntry
MaxHandlers == 3

\* a handler filter: absent, or the fields the conditions are built from
\* (to is "none" when the filter does not give it, "null" when it is null)
Filter(from, to, function, topics) ==
    [present |-> TRUE, from |-> from, to |-> to, function |-> function,
     topics |-> topics]

NoFilter ==
    [present |-> FALSE, from |-> "none", to |-> "none", function |-> "none",
     topics |-> "none"]

\* the handlers of the projects tried
Handlers ==
    {[kind |-> "Block", filter |-> NoFilter],
     [kind |-> "Block", filter |-> Filter("none", "none", "none", "none")],
     [kind |-> "Call", filter |-> Filter("MockAddress", "none", "none", "none")],
     [kind |-> "Call",
      filter |-> Filter("mockaddress", "none", "transfer(address)", "none")],
     [kind |-> "Call", filter |-> Filter("none", "0xAbCd", "none", "none")],
     [kind |-> "Call", filter |-> Filter("none", "null", "none", "none")],
     [kind |-> "Call", filter |-> Filter("none", "none", "none", "none")],
     [kind |-> "Event", filter |-> Filter("none", "none", "none", "Transfer(address)")],
     [kind |-> "Event", filter |-> Filter("none", "none", "none", "none")]}

\* two data sources as in the tests: the first names a contract address, the
\* second does not; the handlers are shared out between them
DataSourceLists(maxHandlers) ==
    UNION {{<<[options |-> [address |-> "0x7ceB"], handlers |-> SubSeq(hs, 1, k)],
              [options |-> [address |-> "none"],
               handlers |-> SubSeq(hs, k + 1, Len(hs))]>> : k \in 0..Len(hs)} :
           hs \in UNION {[1..n -> Handlers] : n \in 1..maxHandlers}}

\* String.prototype.toLowerCase on the addresses in use
toLowerCase(str) ==
    CASE str = "MockAddress" -> "mockaddress"
      [] str = "0x7ceB" -> "0x7ceb"
      [] str = "0xAbCd" -> "0xabcd"
      [] OTHER -> str

\* functionToSighash and eventToTopic on the signatures in use
functionToSighash(signature) ==
    CASE signature = "transfer(address)" -> "0x1a695230" [] OTHER -> "0x00000000"

eventToTopic(signature) ==
    CASE signature = "Transfer(address)" -> "0x13e4a7a4" [] OTHER -> "0x00000001"

\* extractOptionAddresses of the options of one data source
extractOptionAddresses(dsOptions) ==
    IF dsOptions.address # "none" THEN <<toLowerCase(dsOptions.address)>> ELSE <<>>

\* the truth value of an array in a condition: an array is an object, and
\* every object is truthy, the empty array included
truthy(array) == TRUE

\* callFilterToDictionaryCondition: from in lower case, function as sighash,
\* and the filter's to when the option addresses are falsy
callFilterToDictionaryCondition(filter, dsOptions) ==
    LET optionsAddresses == extractOptionAddresses(dsOptions)
    IN  [from |-> IF filter.from # "none" THEN <<toLowerCase(filter.from)>> ELSE <<>>,
         to |-> IF ~truthy(optionsAddresses)
                THEN IF filter.to \notin {"none", "null"}
                     THEN <<toLowerCase(filter.to)>>
                     ELSE IF filter.to = "null" THEN <<"null">> ELSE <<>>
                ELSE <<>>,
         function |-> IF filter.function # "none"
                      THEN <<functionToSighash(filter.function)>> ELSE <<>>]

\* eventFilterToDictionaryCondition: address of the data source and topic 0
eventFilterToDictionaryCondition(filter, dsOptions) ==
    [address |-> extractOptionAddresses(dsOptions),
     topics0 |-> IF filter.topics # "none" THEN <<eventToTopic(filter.topics)>>
                 ELSE <<>>]

\* the flat list of (data source, handler) pairs in the order of the loops
RECURSIVE HandlerList(_)
HandlerList(dss) ==
    IF dss = <<>> THEN <<>>
    ELSE [i \in 1..Len(dss[1].handlers) |->
              [ds |-> dss[1], handler |-> dss[1].handlers[i]]]
         \o HandlerList(Tail(dss))

EmptyEntry == [logs |-> <<>>, transactions |-> <<>>, returned |-> "none"]

\* the two loops: a handler without filter and a Block handler return the
\* entry as it stands; Call and Event handlers push their condition
RECURSIVE buildLoop(_, _)
buildLoop(entry, rest) ==
    IF rest = <<>> THEN [entry EXCEPT !.returned = "end"]
    ELSE LET ds == rest[1].ds
             handler == rest[1].handler
         IN  IF ~handler.filter.present THEN [entry EXCEPT !.returned = "early"]
             ELSE IF handler.kind = "Block" THEN [entry EXCEPT !.returned = "early"]
             ELSE IF handler.kind = "Call"
             THEN IF \/ handler.filter.from # "none"
                     \/ handler.filter.to # "none"
                     \/ handler.filter.function # "none"
                  THEN buildLoop(
                         [entry EXCEPT !.transactions = Append(@,
                            callFilterToDictionaryCondition(handler.filter, ds.options))],
                         Tail(rest))
                  ELSE buildLoop(entry, Tail(rest))
             ELSE IF ds.options.address # "none" \/ handler.filter.topics # "none"
                  THEN buildLoop(
                         [entry EXCEPT !.logs = Append(@,
                            eventFilterToDictionaryCondition(handler.filter, ds.options))],
                         Tail(rest))
                  ELSE buildLoop(entry, Tail(rest))

\* the entry returned; at the end of the loops empty lists are deleted, which
\* leaves no condition either way
buildDictionaryV2QueryEntry(dss) == buildLoop(EmptyEntry, HandlerList(dss))

buildQueryEntry ==
    /\ queryEntry.returned = "none"
    /\ queryEntry' = buildDictionaryV2QueryEntry(dataSources)
    /\ UNCHANGED <<indexerVars, clientVars, httpVars, apiVars, receiptVars, dataSources>>

InitDict ==
    /\ IndexerIdle
    /\ ClientIdle
    /\ HttpIdle
    /\ ApiIdle
    /\ ReceiptIdle
    /\ dataSources \in DataSourceLists(MaxHandlers)
    /\ queryEntry = EmptyEntry

NextDict == buildQueryEntry

SpecDict == InitDict /\ [][NextDict]_vars

\* ------------------------------------------- DictionaryV1 (part_006)
\* CoreDictionary.validateChainMeta
validateChainMeta(metaData, chainId) ==
    metaData.chain = chainId \/ metaData.genesisHash = chainId

\* DictionaryV1.dictionaryValidation: the verdict of its inner validate()
dictionaryValidation(metaData, startBlockHeight) ==
    IF ~metaData.present THEN FALSE
    ELSE IF metaData.lastProcessedHeight < startBlockHeight THEN FALSE
    ELSE TRUE

\* CoreDictionary.useDictionary, the dictionary endpoint being configured
useDictionary(d) == d.metadataValid

\* dictionaryQuery and metadataQuery: does the query text use the distinct
\* argument, does it ask for startHeight
dictionaryQuery(d) == [kind |-> "data", distinct |-> d.useDistinct, startHeight |-> FALSE]

metadataQuery(d) ==
    [kind |-> "metadata", distinct |-> FALSE, startHeight |-> d.useStartHeight]

\* client.query: a server that does not know an argument answers with the
\* unknown-argument error that names it; any query may fail otherwise
queryError(d, query) ==
    IF query.distinct /\ ~d.server.distinct THEN "distinct"
    ELSE IF query.startHeight /\ ~d.server.startHeight THEN "startHeight"
    ELSE IF d.queryFails THEN "other"
    ELSE "none"

\* the query is sent and answered
queried(d, query) ==
    [d EXCEPT !.queries = Append(@, [kind |-> query.kind,
                                     distinct |-> query.distinct,
                                     startHeight |-> query.startHeight,
                                     error |-> queryError(d, query)])]

\* DictionaryV1.getQueryEndBlock
getQueryEndBlock(startBlockHeight, apiFinalizedHeight, lastProcessedHeight) ==
    Min(Min(startBlockHeight + DictionaryQuerySize, apiFinalizedHeight),
        lastProcessedHeight)

\* the nodes of one entity in the response to the query fragment built for
\* (startBlock, queryEndBlock, batchSize): the first batchSize heights of
\* the dictionary from startBlock and below queryEndBlock, in ascending order
responseNodes(heights, startBlock, queryEndBlock, batchSize) ==
    LET matching == Ascending({h \in heights : startBlock <= h /\ h < queryEndBlock})
    IN  SubSeq(matching, 1, Min(Len(matching), batchSize))

\* Math.min(...values): Infinity when there is no value
MathMin(values) ==
    IF values = {} THEN Infinity
    ELSE CHOOSE v \in values : \A w \in values : v <= w

\* getData, from the response to the returned batch: the set of the
\* heights of all nodes, the height of the last node of each entity that has
\* nodes, the least of these as endBlock, and the heights up to endBlock sorted
batchOf(data) ==
    LET blockHeightSet ==
            UNION {{data[entity][i] : i \in 1..Len(data[entity])} : entity \in Entities}
        entityEndBlock ==
            {data[entity][Len(data[entity])] :
                entity \in {e \in Entities : data[e] # <<>>}}
        endBlock == MathMin(entityEndBlock)
    IN  [lastBufferedHeight |-> endBlock,
         batchBlocks |-> Ascending({block \in blockHeightSet : block <= endBlock})]

RECURSIVE getDataRun(_)
\* slip: the flag is cleared but the query is not run again
getDataCatchNoRerun(d, error) ==
    IF error = "distinct"
    THEN [d EXCEPT !.useDistinct = FALSE, !.response = "undefined"]
    ELSE [d EXCEPT !.response = "undefined"]

\* getData, the catch block: a distinct error clears the flag and runs
\* getData again, any other error returns undefined
getDataCatch(d, error) ==
    IF error = "distinct"
    THEN getDataRun([d EXCEPT !.useDistinct = FALSE])
    ELSE [d EXCEPT !.response = "undefined"]

\* getData: the query, then the validation of its _metadata
getDataRun(d) ==
    LET query == dictionaryQuery(d)
        error == queryError(d, query)
        sent == queried(d, query)
    IN  IF error # "none" THEN getDataCatch(sent, error)
        ELSE LET valid == dictionaryValidation(sent.metaData, sent.startBlock)
                 queryEndBlock == getQueryEndBlock(sent.startBlock,
                                                   sent.apiFinalizedHeight,
                                                   sent.metaData.lastProcessedHeight)
                 data == [entity \in Entities |->
                             responseNodes(sent.nodes[entity], sent.startBlock,
                                           queryEndBlock, BatchSize)]
                 batch == batchOf(data)
             IN  [sent EXCEPT !.metadataValid = valid,
                              !.response = IF valid THEN "blocks" ELSE "undefined",
                              !.result = IF valid
                                         THEN [lastBufferedHeight |-> batch.lastBufferedHeight,
                                               batchBlocks |-> batch.batchBlocks,
                                               queryEndBlock |-> queryEndBlock]
                                         ELSE @]

RECURSIVE initMetadataRun(_)
\* initMetadata: the metadata query; a startHeight error clears the flag and
\* runs initMetadata again, then the error is logged and the call returns
initMetadataRun(d) ==
    LET query == metadataQuery(d)
        error == queryError(d, query)
        sent == queried(d, query)
    IN  IF error = "none" THEN [sent EXCEPT !.initialized = sent.metaData.present]
        ELSE IF error = "startHeight"
             THEN initMetadataRun([sent EXCEPT !.useStartHeight = FALSE])
        ELSE sent

\* DictionaryV1.getData is called
getData ==
    /\ Len(dictV1.queries) < MaxQueries
    /\ dictV1' = getDataRun(dictV1)
    /\ UNCHANGED <<indexerVars, httpVars, apiVars, receiptVars, dictVars,
                   batchProvider, finality>>

\* DictionaryV1.initMetadata is called
initMetadata ==
    /\ Len(dictV1.queries) < MaxQueries
    /\ dictV1' = initMetadataRun(dictV1)
    /\ UNCHANGED <<indexerVars, httpVars, apiVars, receiptVars, dictVars,
                   batchProvider, finality>>

DictionaryMetadata ==
    [present : BOOLEAN, chain : {"1", "5"}, genesisHash : {"0xa", "0xb"},
     lastProcessedHeight : Heights]

InitDictV1 ==
    /\ IndexerIdle
    /\ HttpIdle
    /\ ApiIdle
    /\ ReceiptIdle
    /\ DictIdle
    /\ dictV1 \in [chainId : {"1", "0xa"}, metaData : DictionaryMetadata,
                    startBlock : 1..MaxHeight, queryFails : BOOLEAN,
                    metadataValid : {FALSE}, response : {"none"},
                    server : [distinct : BOOLEAN, startHeight : BOOLEAN],
                    useDistinct : {TRUE}, useStartHeight : {TRUE},
                    initialized : {FALSE}, queries : {<<>>},
                    nodes : {NoDictV1.nodes},
                    apiFinalizedHeight : {NoDictV1.apiFinalizedHeight},
                    result : {NoDictV1.result}]
    /\ batchProvider = NoBatchProvider
    /\ finality = NoFinality

NextDictV1 ==
    \/ getData
    \/ initMetadata

SpecDictV1 == InitDictV1 /\ [][NextDictV1]_vars

\* what a dictionary holds for an entity: at most BatchSize + 1 heights
DictionaryNodes ==
    {heights \in SUBSET (1..MaxHeight) : Cardinality(heights) <= BatchSize + 1}

\* a dictionary of the chain of the indexer, with its records
InitDictData ==
    /\ IndexerIdle
    /\ HttpIdle
    /\ ApiIdle
    /\ ReceiptIdle
    /\ DictIdle
    /\ \E lastProcessedHeight \in Heights, startBlock \in 1..MaxHeight,
          distinct \in BOOLEAN, nodes \in [Entities -> DictionaryNodes] :
          dictV1 = [NoDictV1 EXCEPT
                       !.metaData = [present |-> TRUE, chain |-> "1",
                                     genesisHash |-> "0xa",
                                     lastProcessedHeight |-> lastProcessedHeight],
                       !.startBlock = startBlock,
                       !.server.distinct = distinct,
                       !.nodes = nodes]
    /\ batchProvider = NoBatchProvider
    /\ finality = NoFinality

SpecDictData == InitDictData /\ [][NextDictV1]_vars

\* ------------------------------------ JsonRpcBatchProvider (part_001)
\* what comes back for a batch: an array with a payload for every request,
\* an array with payloads beyond those, an array that lacks the payload of a
\* request, a body that is not an array, or a failure of the HTTP request
Outcomes == {"ok", "surplus", "missing", "notArray", "httpError"}

\* new Promise in send: resolve and reject act on a pending promise only
settlePromise(inflightRequest, state, value) ==
    IF inflightRequest.state = "pending"
    THEN [inflightRequest EXCEPT !.state = state, !.value = value]
    ELSE inflightRequest

\* slip: the batch is left as it is
rejectNone(batch) == batch

\* batch.forEach(inflightRequest => inflightRequest.reject(error))
rejectAll(batch) ==
    [k \in DOMAIN batch |-> settlePromise(batch[k], "rejected", Null)]

\* the forEach over the batch in the then callback, where the payload of
\* request number `missing` is absent (0: none is): each request before it is
\* resolved with the result of the payload of its id, a payload whose result
\* is the id here; the read of payload.error of the absent one throws, which
\* ends the loop and runs the catch callback
feedResults(batch, missing) ==
    LET fed == [k \in DOMAIN batch |->
                   IF missing = 0 \/ k < missing
                   THEN settlePromise(batch[k], "resolved", batch[k].id)
                   ELSE batch[k]]
    IN  IF missing = 0 THEN fed ELSE rejectAll(fed)

\* what the callbacks of runRequests do to the promises of the batch
settleBatch(batch, outcome, missing) ==
    CASE outcome \in {"notArray", "httpError"} -> rejectAll(batch)
      [] outcome = "missing" -> feedResults(batch, missing)
      [] OTHER -> feedResults(batch, 0)

\* runRequests up to fetchJson: the pending batch becomes one array request,
\* recorded with the batch size of that moment
runRequests(bp) ==
    [bp EXCEPT !.pendingBatch = 0, !.aggregator = FALSE,
               !.sent = Append(bp.sent,
                    [requests |-> bp.pendingBatch,
                     batchSize |-> bp.batchSize,
                     batch |-> [k \in 1..bp.pendingBatch |->
                                  [id |-> bp.calls - bp.pendingBatch + k,
                                   state |-> "pending", value |-> Undefined]]])]

\* slip: the decrement is not guarded by the status
runRequestsCatchUnguarded(bp) ==
    [bp EXCEPT !.batchSize = @ - 1, !.batchSizeStatus = "determined"]

\* runRequests, the catch callback
runRequestsCatch(bp) ==
    IF bp.batchSizeStatus = "testing"
    THEN [bp EXCEPT !.batchSize = @ - 1, !.batchSizeStatus = "determined"]
    ELSE bp

\* runRequests, the then callback: a body that is not an array rejects the
\* batch and returns; an array is counted, and the read of payload.error
\* throws into the catch callback when a request has no payload
runRequestsThen(bp, outcome) ==
    IF outcome = "notArray" THEN bp
    ELSE LET counted == IF bp.batchSizeStatus = "testing"
                        THEN [bp EXCEPT !.batchSize = @ + 1]
                        ELSE bp
         IN  IF outcome = "missing" THEN runRequestsCatch(counted) ELSE counted

\* send: the request joins the pending batch, the timer is set if there is
\* none, and the batch is flushed when it is longer than batchSize
send ==
    /\ batchProvider.calls < MaxSends
    /\ LET queued == [batchProvider EXCEPT !.calls = @ + 1, !.pendingBatch = @ + 1,
                                           !.aggregator = TRUE]
       IN  batchProvider' = IF queued.pendingBatch > queued.batchSize
                            THEN runRequests(queued)
                            ELSE queued
    /\ UNCHANGED <<indexerVars, httpVars, apiVars, receiptVars, dictVars, dictV1,
                   finality>>

\* the timer of 1 ms fires: runRequests
aggregatorFires ==
    /\ batchProvider.aggregator
    /\ batchProvider' = runRequests(batchProvider)
    /\ UNCHANGED <<indexerVars, httpVars, apiVars, receiptVars, dictVars, dictV1,
                   finality>>

\* the batches sent and not yet answered
Inflight ==
    {i \in 1..Len(batchProvider.sent) :
        \A k \in 1..Len(batchProvider.responses) : batchProvider.responses[k].batch # i}

\* fetchJson settles for one of the batches in flight
batchResponse ==
    /\ \E i \in Inflight, outcome \in Outcomes :
          \E missing \in IF outcome = "missing"
                          THEN 1..batchProvider.sent[i].requests ELSE {0} :
             LET settled == IF outcome = "httpError"
                            THEN runRequestsCatch(batchProvider)
                            ELSE runRequestsThen(batchProvider, outcome)
             IN  batchProvider' =
                    [settled EXCEPT
                        !.sent[i].batch = settleBatch(@, outcome, missing),
                        !.responses = Append(@, [batch |-> i, outcome |-> outcome])]
    /\ UNCHANGED <<indexerVars, httpVars, apiVars, receiptVars, dictVars, dictV1,
                   finality>>

InitBatch ==
    /\ IndexerIdle
    /\ HttpIdle
    /\ ApiIdle
    /\ ReceiptIdle
    /\ DictIdle
    /\ ClientIdle

NextBatch ==
    \/ send
    \/ aggregatorFires
    \/ batchResponse

SpecBatch == InitBatch /\ [][NextBatch]_vars

\* the timer fires and fetchJson settles (it has a timeout)
FairBatch ==
    /\ SpecBatch
    /\ WF_vars(aggregatorFires)
    /\ WF_vars(batchResponse)

\* ------------------------------------------- EthereumApi (part_001)
\* the tag getFinalizedBlockHeight asks for: 'finalized', or the tag of
\* getBestBlockHeight in the fallback branch
blockTag(supportsFinalization) ==
    IF supportsFinalization THEN "finalized" ELSE "latest"

\* slip: the catch block leaves the flag as it is
caughtKeepsFlag(fin) == fin

\* getFinalizedBlockHeight, the catch block: the flag is cleared
caught(fin) == [fin EXCEPT !.supportsFinalization = FALSE]

\* getFinalizedBlockHeight is entered, from outside or by its own recursion
enter(fin, c, later) ==
    [fin EXCEPT !.calls[c] =
        [pc |-> blockTag(fin.supportsFinalization), later |-> later,
         tag |-> blockTag(fin.supportsFinalization), number |-> Null, ret |-> Null,
         depth |-> IF fin.calls[c].pc \in {"idle", "returned"} THEN 0
                   ELSE (fin.calls[c].depth + 1) % 2]]

\* a caller asks for the finalized height
getFinalizedBlockHeight ==
    /\ \E c \in 1..NumCallers :
          /\ finality.calls[c].pc \in {"idle", "returned"}
          /\ finality' = enter(finality, c, finality.rejected)
    /\ UNCHANGED <<indexerVars, httpVars, apiVars, receiptVars, dictVars, dictV1,
                   batchProvider>>

\* client.getBlock(tag) resolves with the block of height n
getBlockResolves ==
    /\ ~finality.down
    /\ \E c \in 1..NumCallers, n \in Heights :
          /\ finality.calls[c].pc \in {"finalized", "latest"}
          /\ finality' =
                [finality EXCEPT !.calls[c].pc = "returned",
                                 !.calls[c].number = n,
                                 !.calls[c].ret =
                                     IF finality.calls[c].pc = "finalized" THEN n
                                     ELSE n - FinalizedLag]
    /\ UNCHANGED <<indexerVars, httpVars, apiVars, receiptVars, dictVars, dictV1,
                   batchProvider>>

\* client.getBlock(tag) rejects: the catch block, then the recursive call
getBlockRejects ==
    /\ \E c \in 1..NumCallers :
          /\ finality.calls[c].pc \in {"finalized", "latest"}
          /\ LET noted == [finality EXCEPT !.rejected =
                              @ \/ finality.calls[c].pc = "finalized"]
             IN  finality' = enter(caught(noted), c, finality.calls[c].later)
    /\ UNCHANGED <<indexerVars, httpVars, apiVars, receiptVars, dictVars, dictV1,
                   batchProvider>>

InitFinality ==
    /\ IndexerIdle
    /\ HttpIdle
    /\ ApiIdle
    /\ ReceiptIdle
    /\ DictIdle
    /\ dictV1 = NoDictV1
    /\ batchProvider = NoBatchProvider
    /\ \E down \in BOOLEAN : finality = [NoFinality EXCEPT !.down = down]

NextFinality ==
    \/ getFinalizedBlockHeight
    \/ getBlockResolves
    \/ getBlockRejects

SpecFinality == InitFinality /\ [][NextFinality]_vars

\* every call of client.getBlock settles, for each caller
FairFinality ==
    /\ SpecFinality
    /\ \A c \in 1..NumCallers :
          WF_vars(/\ getBlockResolves \/ getBlockRejects
                  /\ finality'.calls[c] # finality.calls[c])

\* ------------------------------------------------------------ properties
Sequential(list) ==
    \A i \in 1..(Len(list) - 1) : list[i + 1][1] = list[i][1] + 1

\* a step that carries out a rewind
RewindStep == proc.pc = "return" /\ proc.ret # Null

\* C1 as stated: every value of lastProcessedHeight written to the store is
\* strictly greater than the value written before it
C1_StrictlyMonotonic ==
    [][LastProcessedHeight' # LastProcessedHeight
          => LastProcessedHeight' > LastProcessedHeight]_vars

\* C1 amended: every block commit stores a lastProcessedHeight strictly greater
\* than the stored value; the only other write is a fork rewind, which stores
\* its rewind height
C1_MonotonicBetweenRewinds ==
    [][LastProcessedHeight' # LastProcessedHeight
          => IF RewindStep
             THEN LastProcessedHeight' = proc.ret
             ELSE LastProcessedHeight' > LastProcessedHeight]_vars

\* C1 witness: a block is committed again after a rewind took the store below it
C1_Witness ==
    /\ proc.pc = "return"
    /\ proc.ret = Null
    /\ ~proc.inInit
    /\ IsNum(rewound)
    /\ proc.block = rewound + 1
    /\ LastProcessedHeight = rewound

\* C2: in every reachable state each record's height is one more than the
\* height of the record before it in the unfinalized list
C2_RecordsSequential == Sequential(unfinalizedBlocks)

\* C2 witness: a list of at least two records survives a removal of finalized
\* records
C2_Witness ==
    /\ proc.pc = "deleteTail"
    /\ Len(unfinalizedBlocks) >= 2
    /\ unfinalizedBlocks[1][1] <= finalizedBlockNumber + 1

\* C3: whenever processUnfinalizedBlocks returns null with finalized height F,
\* neither the list in memory nor the list written to the store holds a
\* record at or below F
C3_NoFinalizedRecordLeft ==
    (proc.pc = "return" /\ proc.ret = Null) =>
        /\ \A i \in 1..Len(unfinalizedBlocks) :
              unfinalizedBlocks[i][1] > finalizedBlockNumber
        /\ LET stored == StoredUnfinalized(metadata, tx)
           IN  \A i \in 1..Len(stored) : stored[i][1] > finalizedBlockNumber

\* C4: whenever processUnfinalizedBlocks reports a fork with a rewind height,
\* that height is at or below the height of the last block processed before
\* the call
C4_RewindNotAhead ==
    (proc.pc = "return" /\ IsNum(proc.ret)) => proc.ret <= LastProcessedHeight

C6_RegisterContract ==
    [][(proc.pc = "idle" /\ proc'.pc \notin {"idle", "boot"}) =>
          LET h == proc'.block
              written == tx'.writes["unfinalizedBlocks"]
          IN  IF h <= finalizedBlockNumber
              THEN /\ unfinalizedBlocks' = unfinalizedBlocks
                   /\ ~written.present
                   /\ metadata' = metadata
                   /\ proc'.pc # "exited"
              ELSE IF unfinalizedBlocks # <<>>
                      /\ unfinalizedBlocks[Len(unfinalizedBlocks)][1] + 1 # h
              THEN /\ proc'.pc = "exited"
                   /\ unfinalizedBlocks' = unfinalizedBlocks
                   /\ ~written.present
                   /\ metadata' = metadata
              ELSE /\ proc'.pc # "exited"
                   /\ unfinalizedBlocks' =
                         Append(unfinalizedBlocks, <<h, Hash(h, chain[h])>>)
                   /\ written.present
                   /\ JSONParse(written.value) = unfinalizedBlocks'
    ]_vars

\* C6 witness: the fatal exit was taken with a non-empty list
C6_Witness ==
    /\ proc.pc = "exited"
    /\ proc.block > finalizedBlockNumber
    /\ unfinalizedBlocks # <<>>

\* C7 as stated: on cold start with persisted records init runs
\* processUnfinalizedBlocks, calls reindex exactly once with the rewind height
\* it yields, and does not call reindex when it yields null
C7_InitReplays ==
    (initLog.done /\ initLog.hadRecords) =>
        /\ initLog.ranProcess
        /\ IF initLog.result # Null
           THEN initLog.reindexCalls = <<initLog.result>>
           ELSE initLog.reindexCalls = <<>>

\* C7 amended: the same, on a cold start with persisted records and the
\* indexing of unfinalized blocks switched off in the configuration
C7_InitReplaysWhenDisabled ==
    (initLog.done /\ initLog.hadRecords /\ ~initLog.unfinalizedBlocks) =>
        /\ initLog.ranProcess
        /\ IF initLog.result # Null
           THEN initLog.reindexCalls = <<initLog.result>>
           ELSE initLog.reindexCalls = <<>>

\* C7 witness: init found a fork in the persisted records and called reindex
C7_Witness ==
    /\ initLog.done
    /\ initLog.hadRecords
    /\ ~initLog.unfinalizedBlocks
    /\ initLog.ranProcess
    /\ IsNum(initLog.result)
    /\ initLog.reindexCalls = <<initLog.result>>

\* C8: a block is committed only after every dispatched lower height: no
\* height still in the queue is at or below a committed one
C8_InOrderCommit ==
    \A i \in 1..Len(queue) : queue[i].height > lastCommitted

\* C8 witness: a worker has finished a later block while an earlier one is
\* still being fetched, after some block was committed
C8_Witness ==
    /\ lastCommitted > 0
    /\ Len(queue) >= 2
    /\ queue[1].st = "fetching"
    /\ queue[2].st = "fetched"

\* C9: freeSize is never negative, and enqueueBlocks is never called with more
\* heights than the free slots at the time of the call
C9_FreeSizeRespected ==
    /\ freeSize >= 0
    /\ fetchPc = "enqueuing" => Len(lastCall.heights) <= lastCall.freeBefore

\* C9 witness: a call whose batch had to be cut to the free slots
C9_Witness ==
    /\ fetchPc = "enqueuing"
    /\ Len(lastCall.heights) = lastCall.freeBefore
    /\ lastCall.freeBefore < BatchSize
    /\ freeSize = 0

\* C10: the loop never calls enqueueBlocks while freeSize is 0, and once
\* freeSize is positive it eventually calls enqueueBlocks, for as long as the
\* cursor is not past the target
C10_Backpressure ==
    /\ [][(fetchPc # "enqueuing" /\ fetchPc' = "enqueuing") => freeSize > 0]_vars
    /\ (freeSize > 0 /\ nextHeight <= latestFinalizedHeight)
          ~> (fetchPc = "enqueuing" \/ nextHeight > latestFinalizedHeight)

\* C10 witness: the queue is full while the cursor is still below the target
C10_Witness ==
    /\ freeSize = 0
    /\ fetchPc = "idle"
    /\ nextHeight <= latestFinalizedHeight

\* the modulo multiples the call in progress could draw on
CallModuloBlocks ==
    {h \in lastCall.start..lastCall.lastBufferedHeight :
        \E i \in 1..Len(modulos) : h % modulos[i] = 0}

\* is height h excluded by an entry of bypassBlocks
Bypassed(h) ==
    \E i \in 1..Len(bypassBlocks) : bypassBlocks[i].lo <= h /\ h <= bypassBlocks[i].hi

\* the union the call in progress is cut from: dictionary heights and modulo
\* multiples, less the bypassed heights
CallUnion ==
    {h \in Elements(lastCall.batchBlocks) \cup CallModuloBlocks : ~Bypassed(h)}

\* the heights of the call are the first n of the union in ascending order,
\* and the up-to height is the last of them when the union was cut
FirstOfUnion(n) ==
    /\ Len(lastCall.heights) = n
    /\ \A i \in 1..(n - 1) : lastCall.heights[i] < lastCall.heights[i + 1]
    /\ Elements(lastCall.heights) \subseteq CallUnion
    /\ \A h \in CallUnion \ Elements(lastCall.heights) :
          \A i \in 1..n : lastCall.heights[i] < h
    /\ n < Cardinality(CallUnion) => lastCall.upTo = lastCall.heights[n]

\* C11 as stated: the heights passed to enqueueBlocks are the first batchSize
\* elements of the ascending, duplicate-free union of the dictionary heights
\* with the modulo multiples between the cursor and L, and a cut union passes
\* the last enqueued height as the up-to height
C11_FirstBatchSizeOfUnion ==
    fetchPc = "enqueuing" => FirstOfUnion(Min(Cardinality(CallUnion), BatchSize))

\* C11 amended: the same with the union cut at the free slots of the
\* dispatcher instead of batchSize
C11_FirstFreeSizeOfUnion ==
    fetchPc = "enqueuing" =>
        FirstOfUnion(Min(Cardinality(CallUnion), lastCall.freeBefore))

\* C11 witness: a modulo multiple that the dictionary did not return is
\* enqueued among dictionary heights, and the union was cut
C11_Witness ==
    /\ fetchPc = "enqueuing"
    /\ lastCall.batchBlocks # <<>>
    /\ \E h \in Elements(lastCall.heights) :
          h \notin Elements(lastCall.batchBlocks) /\ h \in CallModuloBlocks
    /\ Len(lastCall.heights) < Cardinality(CallUnion)
    /\ lastCall.upTo < lastCall.lastBufferedHeight

\* C12: no height excluded by bypassBlocks, listed or inside a range, is
\* passed to enqueueBlocks or sits in the queue of the dispatcher
C12_BypassedNeverEnqueued ==
    /\ \A h \in Elements(lastCall.heights) : ~Bypassed(h)
    /\ \A i \in 1..Len(queue) : ~Bypassed(queue[i].height)

\* C12 witness: a call whose batch lost the upper end of a bypassed range
C12_Witness ==
    /\ fetchPc = "enqueuing"
    /\ lastCall.heights # <<>>
    /\ \E i \in 1..Len(bypassBlocks) :
          /\ bypassBlocks[i].range
          /\ bypassBlocks[i].hi \in
                Elements(lastCall.batchBlocks) \cup CallModuloBlocks
          /\ bypassBlocks[i].hi < lastCall.heights[Len(lastCall.heights)]

\* C13 as stated: when the dictionary returns an empty batch that covers the
\* heights up to end, enqueueBlocks is called with no height and end, and the
\* cursor becomes end + 1
C13_EmptyBatchAdvances ==
    (fetchPc = "enqueuing" /\ lastCall.batchBlocks = <<>>) =>
        /\ lastCall.heights = <<>>
        /\ lastCall.upTo = lastCall.lastBufferedHeight
        /\ nextHeight = lastCall.lastBufferedHeight + 1

\* C13 amended: the same when no modulo multiple lies between the cursor and
\* end
C13_EmptyBatchAdvancesWithoutModulo ==
    (fetchPc = "enqueuing" /\ lastCall.batchBlocks = <<>> /\ CallModuloBlocks = {}) =>
        /\ lastCall.heights = <<>>
        /\ lastCall.upTo = lastCall.lastBufferedHeight
        /\ nextHeight = lastCall.lastBufferedHeight + 1

\* C13 witness: an empty dictionary batch moved the cursor over several heights
C13_Witness ==
    /\ fetchPc = "enqueuing"
    /\ lastCall.batchBlocks = <<>>
    /\ CallModuloBlocks = {}
    /\ lastCall.heights = <<>>
    /\ lastCall.lastBufferedHeight > lastCall.start
    /\ nextHeight = lastCall.lastBufferedHeight + 1

\* has the call of _fetchData settled
Settled == http.result.state # "pending"

\* C14: a call issues at most throttleLimit requests (12 by default), retries
\* after 429, retries asked for by the response processor and followed
\* redirects included, and a call that was started settles
C14_AttemptsBounded ==
    /\ [](http.requests <= attemptLimit(connection))
    /\ (http.pc # "none") ~> Settled

\* C14 witness: a call with the default limit that used every attempt, with
\* the three kinds of retry among them, and settled
C14_Witness ==
    /\ Settled
    /\ connection.throttleLimit = Null
    /\ http.requests = DefaultThrottleLimit
    /\ http.retries = {"redirect", "429", "processor"}

\* the timer callback ran in this step
TimerFired == http.timer /\ ~http'.timer /\ http'.pc = http.pc

\* C15: a timeout that fires before the attempts produced a result rejects the
\* call with TIMEOUT; once the call has settled nothing changes its outcome;
\* attempts that finish first decide the outcome
C15_TimeoutRace ==
    [][/\ (TimerFired /\ ~Settled /\ http.runningFetch.state = "pending")
            => http'.result = Rejected("TIMEOUT")
       /\ Settled => http'.result = http.result
       /\ (~Settled /\ http.runningFetch.state = "pending"
              /\ http'.runningFetch.state # "pending")
            => http'.result = http'.runningFetch]_vars

\* the connection the pool hands out after connection c
NextConnection(c) == (c % Len(pool.connections)) + 1

\* C16: fetchBlocks resolves with the blocks of the first attempt that
\* succeeds; after the initial attempt at most 5 more are made, each on the
\* connection the pool hands out next; the maximum-retries error is thrown
\* only when all of them failed; and the call always settles
C16_RetriesBounded ==
    /\ [](/\ Len(blocksCall.attempts) <= 1 + MAX_RECONNECT_ATTEMPTS
          /\ \A k \in 1..(Len(blocksCall.attempts) - 1) :
                blocksCall.attempts[k + 1] = NextConnection(blocksCall.attempts[k])
          /\ blocksCall.outcome.state = "resolved" =>
                /\ blocksCall.outcome.value = Len(blocksCall.attempts)
                /\ blocksCall.failures = Len(blocksCall.attempts) - 1
          /\ blocksCall.outcome.state = "rejected" =>
                /\ blocksCall.failures = 1 + MAX_RECONNECT_ATTEMPTS
                /\ Len(blocksCall.attempts) = 1 + MAX_RECONNECT_ATTEMPTS)
    /\ (blocksCall.pc \in {"initial", "retrying"}) ~> (blocksCall.pc = "done")

\* C16 witness: the fifth retry, on a pool of two connections, succeeds
C16_Witness ==
    /\ blocksCall.outcome.state = "resolved"
    /\ blocksCall.outcome.value = 1 + MAX_RECONNECT_ATTEMPTS
    /\ blocksCall.reconnectAttempts = MAX_RECONNECT_ATTEMPTS - 1
    /\ Len(pool.connections) = 2

\* do the endpoints all report a chain id, and not all the same one
EndpointsDisagree ==
    /\ \A i \in 1..Len(endpoints) : endpoints[i] # Null
    /\ \E i, j \in 1..Len(endpoints) : endpoints[i] # endpoints[j]

\* C17: when the endpoints report different chain ids, init ends in a fatal
\* ChainId mismatch, the pool stays empty and no block is fetched
C17_MismatchIsFatal ==
    /\ [](EndpointsDisagree =>
            /\ apiService.pc \in {"none", "creating", "exited"}
            /\ apiService.pc = "exited" => apiService.error = "ChainId"
            /\ pool.connections = <<>>
            /\ blocksCall = NoBlocksCall)
    /\ (EndpointsDisagree /\ apiService.pc = "creating") ~> (apiService.pc = "exited")

\* C17 witness: init exits on the mismatch after another endpoint passed
C17_Witness ==
    /\ EndpointsDisagree
    /\ apiService.pc = "exited"
    /\ apiService.error = "ChainId"
    /\ apiService.created # {}
    /\ pool.connections = <<>>

\* C18: fetchBlock asks for no receipt, and however often receipt() of a
\* transaction is called, at most one eth_getTransactionReceipt is issued
\* for it
C18_ReceiptLazyAndMemoized ==
    \A t \in wrapped.transactions :
        /\ receiptCalls[t] = 0 => rpcCalls.getTransactionReceipt[t] = 0
        /\ rpcCalls.getTransactionReceipt[t] <= 1

\* is one of the handlers given a Block handler
HasBlockHandler ==
    \E d \in 1..Len(dataSources) :
        \E i \in 1..Len(dataSources[d].handlers) :
            dataSources[d].handlers[i].kind = "Block"

\* C19: with a Block handler among the handlers, wherever it stands, the
\* entry returned has no log condition and no transaction condition
C19_BlockHandlerVoidsEntry ==
    (queryEntry.returned # "none" /\ HasBlockHandler) =>
        queryEntry.logs = <<>> /\ queryEntry.transactions = <<>>

\* are the elements of a list pairwise different
Distinct(list) ==
    \A i, j \in 1..Len(list) : i # j => list[i] # list[j]

\* C20: the entry returned holds no two equal log conditions and no two
\* equal transaction conditions
C20_NoDuplicateConditions ==
    queryEntry.returned # "none" =>
        Distinct(queryEntry.logs) /\ Distinct(queryEntry.transactions)

\* C21 as stated: a dictionary response is valid exactly when its metadata
\* names the indexer's chain (chain or genesisHash equal to the chain id) and
\* its lastProcessedHeight is at least the start height; when validation
\* fails getData returns undefined and the dictionary is not used.
C21_ValidIffChainAndHeight ==
    (dictV1.response # "none" /\ ~dictV1.queryFails) =>
        /\ dictV1.metadataValid <=>
               /\ dictV1.metaData.present
               /\ validateChainMeta(dictV1.metaData, dictV1.chainId)
               /\ dictV1.metaData.lastProcessedHeight >= dictV1.startBlock
        /\ ~dictV1.metadataValid =>
               (dictV1.response = "undefined" /\ ~useDictionary(dictV1))

\* the heights of the records at or below the finalized height, as filtered
\* when getLastCorrectFinalizedBlock started, whose hash is the hash of the
\* canonical block at their height
CorrectRecords ==
    {proc.best[i][1] : i \in
        {j \in 1..Len(proc.best) :
            proc.best[j][2] = getBlockByHeight(proc.best[j][1]).hash}}

\* C22 as stated: when a fork is detected getLastCorrectFinalizedBlock returns
\* the greatest height among the records at or below the finalized height
\* whose hash is the canonical hash at that height, and returns
\* lastCheckedBlockHeight only when there is no such record
C22_GreatestCorrectRecord ==
    [][(proc.pc = "glc" /\ proc'.pc = "return") =>
          IF CorrectRecords = {}
          THEN proc'.ret = lastCheckedBlockHeight
          ELSE /\ proc'.ret \in CorrectRecords
               /\ \A h \in CorrectRecords : h <= proc'.ret]_vars

\* the records at or below the finalized height
Verifiable ==
    {i \in 1..Len(unfinalizedBlocks) : unfinalizedBlocks[i][1] <= finalizedBlockNumber}

C24_FinalizedMonotonic ==
    [][(finalizedHeader # NoHeader /\ finalizedHeader' # NoHeader) =>
          /\ finalizedHeader'.number >= finalizedHeader.number
          /\ latestFinalizedHeight' <= finalizedHeader.number =>
                 finalizedHeader' = finalizedHeader]_vars

\* C24 witness: the poll has returned a height below the tracker's header
C24_Witness ==
    /\ finalizedHeader # NoHeader
    /\ proc.pc # "boot"
    /\ latestFinalizedHeight < finalizedHeader.number

\* a batch response has just been handled
Responded == Len(batchProvider'.responses) = Len(batchProvider.responses) + 1

LastOutcome == batchProvider'.responses[Len(batchProvider'.responses)].outcome

\* C25 as stated: while the status is 'testing', a batch whose HTTP request
\* fails or whose response is not an array, or is an array whose length
\* differs from the number of requests, decrements batchSize by one and sets
\* the status to 'determined'
C25_MalformedFreezes ==
    [][(/\ Responded
        /\ batchProvider.batchSizeStatus = "testing"
        /\ LastOutcome \in {"httpError", "notArray", "missing", "surplus"}) =>
          /\ batchProvider'.batchSize = batchProvider.batchSize - 1
          /\ batchProvider'.batchSizeStatus = "determined"]_vars

\* C26: once the status is 'determined' no step changes batchSize or the
\* status; while it is 'testing' a response that is an array with a payload
\* for every request increases batchSize by exactly one
C26_FrozenOnceDetermined ==
    [][/\ batchProvider.batchSizeStatus = "determined" =>
             /\ batchProvider'.batchSize = batchProvider.batchSize
             /\ batchProvider'.batchSizeStatus = "determined"
       /\ (/\ Responded
           /\ batchProvider.batchSizeStatus = "testing"
           /\ LastOutcome = "ok") =>
             batchProvider'.batchSize = batchProvider.batchSize + 1]_vars

\* C26 witness: a batch succeeded while testing, the next one failed, and a
\* third one failed after the size was determined
C26_Witness ==
    /\ Len(batchProvider.responses) = 3
    /\ batchProvider.responses[1].outcome = "ok"
    /\ batchProvider.responses[2].outcome = "httpError"
    /\ batchProvider.responses[3].outcome = "httpError"
    /\ batchProvider.batchSize = 1
    /\ batchProvider.batchSizeStatus = "determined"

\* C27 as stated: every array request holds at most batchSize requests,
\* batchSize being the value when the batch is flushed, and the pending
\* calls never wait once their number has reached batchSize
C27_BatchWithinSize ==
    /\ \A i \in 1..Len(batchProvider.sent) :
          batchProvider.sent[i].requests <= batchProvider.sent[i].batchSize
    /\ batchProvider.pendingBatch > 0 =>
          batchProvider.pendingBatch < batchProvider.batchSize

\* getUrl has answered with a redirect and the loop has gone on to the next
\* attempt at once: the redirect is followed
RedirectFollowed ==
    /\ http.pc = "getUrl"
    /\ http'.pc = "getUrl"
    /\ http'.attempt = http.attempt + 1

\* C28 as stated: within one call a 301/302 response with an https Location
\* is followed only when the method is GET, and only the first one: a
\* second redirect response is not followed
C28_RedirectOnce ==
    [][RedirectFollowed =>
          /\ connection.method = "GET"
          /\ "redirect" \notin http.retries]_vars

\* C29 as stated: when an attempt fails without a response the attempt is
\* retried, and the error reaches the caller only after throttleLimit
\* attempts have been made
C29_NoResponseRetried ==
    (/\ http.pc = "done"
     /\ http.runningFetch.state = "rejected"
     /\ http.runningFetch.value = "TypeError") =>
        http.requests = attemptLimit(connection)

\* C30: once a query with the 'finalized' tag has been rejected the flag
\* supportsFinalization is false and stays false, no call issues a query
\* with the 'finalized' tag, and every call of getFinalizedBlockHeight made
\* after the rejection returns the latest block height minus 15
C30_FallbackPermanent ==
    [][finality.rejected =>
          /\ ~finality.supportsFinalization
          /\ ~finality'.supportsFinalization
          /\ \A c \in 1..NumCallers :
                /\ finality'.calls[c].pc = "finalized" =>
                       finality.calls[c].pc = "finalized"
                /\ (finality'.calls[c].pc = "returned" /\ finality'.calls[c].later) =>
                       /\ finality'.calls[c].tag = "latest"
                       /\ finality'.calls[c].ret =
                              finality'.calls[c].number - FinalizedLag]_vars

\* C30 witness: after the rejection one caller has received a height by the
\* fallback while the other, after a rejected 'latest' query, asks again
C30_Witness ==
    /\ finality.rejected
    /\ \E c, d \in 1..NumCallers :
          /\ finality.calls[c].pc = "returned"
          /\ finality.calls[c].later
          /\ finality.calls[c].ret = MaxHeight - FinalizedLag
          /\ finality.calls[d].pc = "latest"
          /\ finality.calls[d].later

\* the Call handlers that contribute a transaction condition, with their
\* data source, in the order of the loops
CallHandlers ==
    SelectSeq(HandlerList(dataSources),
              LAMBDA p : /\ p.handler.kind = "Call"
                         /\ p.handler.filter.present
                         /\ \/ p.handler.filter.from # "none"
                            \/ p.handler.filter.to # "none"
                            \/ p.handler.filter.function # "none")

\* C31 as stated: the to of the transaction condition of a Call handler is
\* the options.address of its data source in lower case when there is one,
\* whatever the filter says; without options.address it is the filter's to
\* in lower case when the filter gives one
C31_ToOfCallCondition ==
    \A i \in 1..Len(queryEntry.transactions) :
        LET p == CallHandlers[i]
            to == queryEntry.transactions[i].to
        IN  IF p.ds.options.address # "none"
            THEN to = <<toLowerCase(p.ds.options.address)>>
            ELSE p.handler.filter.to \notin {"none", "null"} =>
                    to = <<toLowerCase(p.handler.filter.to)>>

\* C32: after a dictionary query has failed with the unknown-argument error
\* that names distinct (startHeight), the flag of that feature is false, no
\* later query uses the feature, and the query that failed is followed by the
\* same query without the feature
C32_FeatureDisabledForGood ==
    \A i \in 1..Len(dictV1.queries) :
        LET q == dictV1.queries[i] IN
        /\ q.error = "distinct" =>
              /\ ~dictV1.useDistinct
              /\ \A j \in (i + 1)..Len(dictV1.queries) : ~dictV1.queries[j].distinct
              /\ i < Len(dictV1.queries)
              /\ dictV1.queries[i + 1].kind = q.kind
        /\ q.error = "startHeight" =>
              /\ ~dictV1.useStartHeight
              /\ \A j \in (i + 1)..Len(dictV1.queries) : ~dictV1.queries[j].startHeight
              /\ i < Len(dictV1.queries)
              /\ dictV1.queries[i + 1].kind = q.kind

\* C32 witness: both features were refused, and the data query was run again
\* without distinct and answered
C32_Witness ==
    /\ Len(dictV1.queries) = 4
    /\ dictV1.queries[1].error = "startHeight"
    /\ dictV1.queries[2].kind = "metadata"
    /\ dictV1.queries[3].error = "distinct"
    /\ dictV1.queries[4].kind = "data"
    /\ dictV1.queries[4].error = "none"
    /\ dictV1.response = "blocks"

\* C33 as stated: when the blocks arrive in consecutive ascending heights
\* and no reorganisation ever happens, the finalized height only advancing,
\* registerUnfinalizedBlock never takes its fatal exit
C33_NoFatalWithoutFork ==
    [][(nextBranch = 0 /\ proc.pc = "idle") => proc'.pc # "exited"]_vars

\* C34 as stated: when the poll registers a finalized header while
\* processUnfinalizedBlocks is suspended, the height at which the call removes
\* records and which it saves as lastFinalizedVerifiedHeight is the height of
\* the header its hasForked check compared the records with
C34_DeletesAgainstVerifiedHeader ==
    [][(/\ proc.pc = "branch"
        /\ ~proc.forked
        /\ proc'.pc = "deleteTail") =>
          /\ finalizedBlockNumber = proc.verified
          /\ tx'.writes["lastFinalizedVerifiedHeight"].value = proc.verified]_vars

\* the promise of the call with this id, once it was sent in a batch
InflightRequests ==
    {<<i, k>> \in (1..MaxSends) \X (1..MaxSends) :
        i <= Len(batchProvider.sent) /\ k <= batchProvider.sent[i].requests}

CallSettled(id) ==
    \E r \in InflightRequests :
       /\ batchProvider.sent[r[1]].batch[r[2]].id = id
       /\ batchProvider.sent[r[1]].batch[r[2]].state # "pending"

\* C35: every promise returned by send is settled once, and only after the
\* HTTP call of its batch completed: it stays pending while its batch is in
\* flight, is resolved with the result of the payload of its own id or
\* rejected when the batch is answered, and never changes afterwards; the
\* timer is set whenever calls are pending, and no call that was made stays
\* pending for ever
C35_SettledOnce ==
    /\ [][\A r \in InflightRequests :
            LET before == batchProvider.sent[r[1]].batch[r[2]]
                after == batchProvider'.sent[r[1]].batch[r[2]]
            IN  /\ before.state # "pending" => after = before
                /\ after.id = before.id
                /\ r[1] \in Inflight <=> before.state = "pending"
                /\ after.state = "resolved" => after.value = after.id]_vars
    /\ [](batchProvider.pendingBatch > 0 => batchProvider.aggregator)
    /\ \A id \in 1..MaxSends : []<>(batchProvider.calls >= id => CallSettled(id))

\* a batch of two answered without the payload of its second request: the
\* first promise is resolved with its own result, the second is rejected
C35_Witness ==
    \E i \in 1..Len(batchProvider.sent) :
       /\ batchProvider.sent[i].requests = 2
       /\ batchProvider.sent[i].batch[1].state = "resolved"
       /\ batchProvider.sent[i].batch[1].value = batchProvider.sent[i].batch[1].id
       /\ batchProvider.sent[i].batch[2].state = "rejected"

\* C36 as stated: in every state reached by send and batch responses
\* batchSize is at least 1, including when the very first batch fails
C36_BatchSizePositive == batchProvider.batchSize >= 1

\* C37 as stated: getFinalizedBlockHeight terminates, also when every call
\* to the endpoint fails: a call that was entered returns in the end
C37_Terminates ==
    \A c \in 1..NumCallers :
       (finality.calls[c].pc \in {"finalized", "latest"})
          ~> (finality.calls[c].pc = "returned")

\* C38 as stated: processUnfinalizedBlocks returns null or a defined block
\* height, the fallback lastCheckedBlockHeight included, and init never
\* calls reindex with an undefined height
C38_RewindHeightDefined ==
    /\ proc.pc = "return" => (proc.ret = Null \/ IsNum(proc.ret))
    /\ \A i \in 1..Len(initLog.reindexCalls) : IsNum(initLog.reindexCalls[i])

\* C39 as stated: the transaction opened by init is committed or rolled back
\* before init returns, on the path that rewinds as well as on the path that
\* resets the list: no transaction is open when init has returned
C39_InitTransactionClosed ==
    [][(/\ proc.pc = "return"
        /\ proc.inInit
        /\ ~proc'.inInit) => tx'.state # "open"]_vars

\* C40 as stated: for every response the batch getData returns is strictly
\* ascending, each of its heights is at most lastBufferedHeight, and
\* lastBufferedHeight is a finite height not above the queryEndBlock of the
\* request, also when the response has no node for any entity
C40_BatchWithinRequest ==
    dictV1.response = "blocks" =>
        LET batch == dictV1.result IN
        /\ \A i \in 1..(Len(batch.batchBlocks) - 1) :
              batch.batchBlocks[i] < batch.batchBlocks[i + 1]
        /\ \A i \in 1..Len(batch.batchBlocks) :
              batch.batchBlocks[i] <= batch.lastBufferedHeight
        /\ batch.lastBufferedHeight < Infinity
        /\ batch.lastBufferedHeight <= batch.queryEndBlock

====
